---- MODULE Spec2Model ----
(***************************************************************************)
(* A model of the GQM evaluation core of rag-evaluator:                    *)
(*   framework/gqm.py           result tree, weighted scores, metric cache *)
(*   framework/metric_executor.py   dispatch of a metric identifier        *)
(*   framework/pipeline.py      EvaluationPipeline.evaluate                *)
(* Python floats are modelled by exact rationals <<numerator, denominator>>*)
(* in lowest terms; a raised exception is a value with raised = TRUE.      *)
(***************************************************************************)
EXTENDS Integers, Sequences, FiniteSets, TLC

VARIABLES
    config,             \* GQMFramework.config.goals
    detailed,           \* get_config().return_detailed_results
    metric_shape,       \* result shape the metric functions produce
    metric_cache,       \* GQMFramework._metric_cache
    cache_run,          \* history: the run that stored each cache entry
    rag,                \* the RAG system handed to evaluate()
    run,                \* history: number of evaluate() calls started
    pc,                 \* position inside evaluate()
    test_cases,         \* argument of evaluate()
    test_case_results,  \* the list built by _test_rag_system
    gi, qi, mi,         \* loop positions: goal, question, metric
    metric_results,     \* evaluate_question's local list
    question_results,   \* evaluate_goal's local list
    goal_results,       \* evaluate's local list
    result,             \* the EvaluationResult returned (a 0/1 sequence)
    score_read,         \* what reading a .score property gave (0/1 sequence)
    events,             \* history: what this run did, in order
    clock,              \* the wall clock, in seconds (time.strftime)
    output_dir,         \* the files of the output directory, by path
    saving,             \* each save_results call: its position and its path
    saves,              \* history: the paths save_results opened, in order
    served,             \* history: what the dashboard endpoints answered
    test_case_generation,   \* EvaluationConfig.test_case_generation
    responses,          \* what the LLM and the scoring models answer, by case
    returned,           \* what the metric function called gave (0/1 sequence)
    gemini_client_instance, \* clients/gemini_client.py: the module global
    constructed,        \* history: GeminiClient objects fully constructed
    calls               \* history: the client calls made and how they ended

vars == <<config, detailed, metric_shape, metric_cache, cache_run, rag, run,
          pc, test_cases, test_case_results, gi, qi, mi, metric_results,
          question_results, goal_results, result, score_read, events,
          clock, output_dir, saving, saves, served, test_case_generation,
          responses, returned, gemini_client_instance, constructed, calls>>

\* What only save_results reads and writes.
save_vars == <<clock, output_dir, saving, saves>>

\* What only the Gemini client factory reads and writes.
client_vars == <<gemini_client_instance, constructed, calls>>

\* What evaluate() and save_results leave alone.
other_vars == <<served, test_case_generation, responses, returned,
                client_vars>>

----------------------------------------------------------------------------
(* Bounds of the model.                                                    *)

MaxGoals == 2
MaxQuestions == 2
MaxMetrics == 2
MaxCases == 1
MaxRuns == 2
MaxRefs == 3
MaxClock == 1
MaxBatch == 2
MaxWriters == 2
MaxCalls == 4

----------------------------------------------------------------------------
(* Exact rational arithmetic standing for Python float arithmetic.         *)

Abs(n) == IF n < 0 THEN -n ELSE n

RECURSIVE GCD(_, _)
GCD(a, b) == IF b = 0 THEN a ELSE GCD(b, a % b)

Rat(n, d) ==
    LET g == GCD(Abs(n), Abs(d))
    IN  IF d < 0 THEN <<(-n) \div g, (-d) \div g>> ELSE <<n \div g, d \div g>>

Zero == <<0, 1>>
Half == <<1, 2>>
One == <<1, 1>>

RAdd(a, b) == Rat(a[1] * b[2] + b[1] * a[2], a[2] * b[2])
RMul(a, b) == Rat(a[1] * b[1], a[2] * b[2])
RDiv(a, b) == Rat(a[1] * b[2], a[2] * b[1])
RPos(a) == a[1] > 0

\* Python's sum() over a generator: left fold from 0.
RECURSIVE SumTo(_, _)
SumTo(s, n) == IF n = 0 THEN Zero ELSE RAdd(SumTo(s, n - 1), s[n])

Sum(s) == SumTo(s, Len(s))

\* The value of a Python expression: a float, or an exception raised.
Float(r) == [raised |-> FALSE, exc |-> "", val |-> r]
Raised(e) == [raised |-> TRUE, exc |-> e, val |-> Zero]

----------------------------------------------------------------------------
(* Program constants.                                                      *)

\* constants.py: class MetricId, the fifteen identifiers.
MetricId ==
    {"context_precision", "context_recall", "context_relevance",
     "context_entities_recall", "faithfulness", "factual_consistency",
     "answer_relevance", "bertscore", "answer_correctness",
     "semantic_diversity", "attribution_score", "answer_completeness",
     "self_consistency", "multi_hop_reasoning", "context_utilization"}

\* constants.py: class QuestionType (the members the model uses).
SIMPLE == "QuestionType.SIMPLE"
COMPLEX == "QuestionType.COMPLEX"

----------------------------------------------------------------------------
(* The result tree (gqm.py, dataclasses) and its scores.                   *)

\* Optional[List[...]]: None, or a list.
None == [present |-> FALSE, items |-> <<>>]
Some(l) == [present |-> TRUE, items |-> l]

MetricResult(metric_id, value, weight, individual_scores) ==
    [metric_id |-> metric_id, value |-> value, weight |-> weight,
     individual_scores |-> individual_scores]

has_details(m) == m.individual_scores # None

QuestionResult(question_text, metrics, weight) ==
    [question_text |-> question_text, metrics |-> metrics, weight |-> weight]

GoalResult(goal_name, questions, weight) ==
    [goal_name |-> goal_name, questions |-> questions, weight |-> weight]

EvaluationResult(goals) == [goals |-> goals]

CachedMetricResult(metric_id, value, individual_scores) ==
    [metric_id |-> metric_id, value |-> value,
     individual_scores |-> individual_scores]

\* QuestionResult.score as the plain mean of the values, weights ignored.
QuestionScoreUnweighted(q) ==
    IF q.metrics = <<>> THEN Float(Zero)
    ELSE Float(RDiv(Sum([i \in DOMAIN q.metrics |-> q.metrics[i].value]),
                    <<Len(q.metrics), 1>>))

\* QuestionResult.score without the division by the total weight.
QuestionScoreUndivided(q) ==
    Float(Sum([i \in DOMAIN q.metrics |->
                  RMul(q.metrics[i].value, q.metrics[i].weight)]))

\* QuestionResult.score
QuestionScore(q) ==
    IF q.metrics = <<>> THEN Float(Zero)
    ELSE LET total_weight ==
                 Sum([i \in DOMAIN q.metrics |-> q.metrics[i].weight])
             weighted_sum ==
                 Sum([i \in DOMAIN q.metrics |->
                         RMul(q.metrics[i].value, q.metrics[i].weight)])
         IN  IF total_weight = Zero
             THEN Raised("ZeroDivisionError")
             ELSE Float(RDiv(weighted_sum, total_weight))

\* GoalResult.score with the questions that have no metrics left out.
GoalScoreSkipEmpty(g) ==
    LET kept == SelectSeq(g.questions, LAMBDA q : q.metrics # <<>>)
    IN  IF kept = <<>> THEN Float(Zero)
        ELSE IF \E i \in DOMAIN kept : QuestionScore(kept[i]).raised
        THEN Raised("ZeroDivisionError")
        ELSE Float(RDiv(Sum([i \in DOMAIN kept |->
                               RMul(QuestionScore(kept[i]).val,
                                    kept[i].weight)]),
                        Sum([i \in DOMAIN kept |-> kept[i].weight])))

\* GoalResult.score: question.score is evaluated for every question while
\* weighted_sum is built, so an exception of a child propagates.
GoalScore(g) ==
    IF g.questions = <<>> THEN Float(Zero)
    ELSE LET total_weight ==
                 Sum([i \in DOMAIN g.questions |-> g.questions[i].weight])
             child == [i \in DOMAIN g.questions |->
                          QuestionScore(g.questions[i])]
         IN  IF \E i \in DOMAIN g.questions : child[i].raised
             THEN Raised("ZeroDivisionError")
             ELSE LET weighted_sum ==
                          Sum([i \in DOMAIN g.questions |->
                                  RMul(child[i].val, g.questions[i].weight)])
                  IN  IF RPos(total_weight)
                      THEN Float(RDiv(weighted_sum, total_weight))
                      ELSE Float(Zero)

\* EvaluationResult.score
EvaluationScore(e) ==
    IF e.goals = <<>> THEN Float(Zero)
    ELSE LET total_weight ==
                 Sum([i \in DOMAIN e.goals |-> e.goals[i].weight])
             child == [i \in DOMAIN e.goals |-> GoalScore(e.goals[i])]
         IN  IF \E i \in DOMAIN e.goals : child[i].raised
             THEN Raised("ZeroDivisionError")
             ELSE LET weighted_sum ==
                          Sum([i \in DOMAIN e.goals |->
                                  RMul(child[i].val, e.goals[i].weight)])
                  IN  IF RPos(total_weight)
                      THEN Float(RDiv(weighted_sum, total_weight))
                      ELSE Float(Zero)

\* The metric entry with the key individual_scores always written, null
\* when the metric has no details.
MetricDictAlwaysKey(m) ==
    [id |-> m.metric_id, value |-> m.value, weight |-> m.weight,
     individual_scores |-> IF has_details(m) THEN m.individual_scores.items
                           ELSE <<"null">>]

\* EvaluationResult.to_dict, for a tree whose scores can be computed: the
\* key individual_scores only on a metric that has details.
MetricDict(m) ==
    IF has_details(m)
    THEN [id |-> m.metric_id, value |-> m.value, weight |-> m.weight,
          individual_scores |-> m.individual_scores.items]
    ELSE [id |-> m.metric_id, value |-> m.value, weight |-> m.weight]

ToDict(e) ==
    [overall_score |-> EvaluationScore(e).val,
     goals |-> [g \in DOMAIN e.goals |->
        [name |-> e.goals[g].goal_name,
         score |-> GoalScore(e.goals[g]).val,
         weight |-> e.goals[g].weight,
         questions |-> [q \in DOMAIN e.goals[g].questions |->
            [text |-> e.goals[g].questions[q].question_text,
             score |-> QuestionScore(e.goals[g].questions[q]).val,
             weight |-> e.goals[g].questions[q].weight,
             metrics |-> [k \in DOMAIN e.goals[g].questions[q].metrics |->
                 MetricDict(e.goals[g].questions[q].metrics[k])]]]]]]

----------------------------------------------------------------------------
(* Evaluation data (evaluation_data.py) and the RAG system under test.     *)

TestCase(question, question_type) ==
    [question |-> question, ground_truth |-> <<"truth", question>>,
     question_type |-> question_type, entities |-> <<>>]

TestCaseResult(query, generated_answer, retrieved_documents, ground_truth, entities, question_type) ==
    [query |-> query, generated_answer |-> generated_answer,
     retrieved_documents |-> retrieved_documents,
     ground_truth |-> ground_truth, entities |-> entities,
     question_type |-> question_type]

\* adapters/langchain.py RAGResult: the answer and the number of documents.
RAGResult(answer, retrieved_documents) ==
    [raised |-> FALSE, answer |-> answer,
     retrieved_documents |-> retrieved_documents]

QueryFailed == [raised |-> TRUE, answer |-> "", retrieved_documents |-> 0]

\* An adapter that answers whether or not its references were cleared.
QueryOutcomesAnyway(r) == {QueryFailed, RAGResult("answer", 2)}

\* LangChainRAGAdapter.query: after _unload_rag_system the adapter's
\* retriever and rag_pipeline are None and every query raises.
QueryOutcomes(r) ==
    IF r = "unloaded" THEN {QueryFailed}
    ELSE {QueryFailed, RAGResult("answer", 2)}

----------------------------------------------------------------------------
(* Metric functions and MetricExecutor.execute_metric.                     *)

\* What execute_metric returns: None, a bare float, or a dict with the keys
\* score and individual_scores.  "how" is history: by which path.
NoData == [kind |-> "None", score |-> Zero, individual_scores |-> None,
           how |-> "returned"]
Bare(v, how) == [kind |-> "float", score |-> v, individual_scores |-> None,
                 how |-> how]
Structured(v, d) == [kind |-> "dict", score |-> v,
                     individual_scores |-> Some(d), how |-> "returned"]

\* The entry a metric function appends to detailed_results for a test case.
Detail(r, score) ==
    [query |-> r.query, generated_answer |-> r.generated_answer,
     question_type |-> r.question_type, score |-> score]

\* Scores a metric function computes over the test cases "cases" of the
\* batch: 0.0 with an empty breakdown when no test case contributed, else the
\* mean of the scores with the entry of the test case that contributed.
Breakdowns(data, cases) ==
    {<<Zero, <<>> >>}
        \cup {<<Rat(4, 5), <<Detail(data[i], Rat(4, 5))>> >> : i \in cases}

\* system_metrics.multi_hop_reasoning_score keeps a test case only if it is
\* COMPLEX, has an answer and at least two documents.
MultiHopCases(data) ==
    {i \in DOMAIN data :
        /\ data[i].question_type = COMPLEX
        /\ data[i].generated_answer # ""
        /\ data[i].retrieved_documents >= 2}

\* multi_hop_reasoning_score returns a score only over a non-empty list.
Scored(metric_id, data) ==
    IF metric_id = "multi_hop_reasoning"
    THEN {b \in Breakdowns(data, MultiHopCases(data)) : b[2] # <<>>}
    ELSE Breakdowns(data, DOMAIN data)

\* The fifteen metric functions: every one returns the dict exactly when
\* return_detailed_results is on, else overall_score; only
\* multi_hop_reasoning_score returns None.  shape = "by_flag" is that code;
\* "float" and "dict" are functions that return one shape whatever the flag.
MetricFunction(metric_id, data, flag, shape) ==
    IF metric_id = "multi_hop_reasoning" /\ MultiHopCases(data) = {}
    THEN {NoData}
    ELSE IF shape = "dict" \/ (shape = "by_flag" /\ flag)
         THEN {Structured(b[1], b[2]) : b \in Scored(metric_id, data)}
         ELSE {Bare(b[1], "returned") : b \in Scored(metric_id, data)}

\* execute_metric with an unknown identifier reported as no data.
ExecuteMetricUnknownOmitted(metric_id, data, flag, shape) ==
    IF metric_id \notin MetricId
    THEN {NoData}
    ELSE MetricFunction(metric_id, data, flag, shape)
             \cup {Bare(Zero, "exception")}

\* MetricExecutor.execute_metric: the set of values it can return.
ExecuteMetric(metric_id, data, flag, shape) ==
    IF metric_id \notin MetricId
    THEN {Bare(Zero, "unknown")}
    ELSE MetricFunction(metric_id, data, flag, shape)
             \cup {Bare(Zero, "exception")}

----------------------------------------------------------------------------
(* GQMFramework._get_or_execute_metric.                                    *)

NoCache == [m \in {} |-> None]

\* Normalize with the no-data result taken for a score of 0.0.
NormalizeNoneAsZero(cache, metric_id, weight, value, flag) ==
    IF value.kind = "dict" /\ ~flag
    THEN [cache |-> cache, ret |-> <<>>, raised |-> TRUE]
    ELSE LET score == IF value.kind = "None" THEN Zero ELSE value.score
             individual_scores ==
                 IF value.kind = "dict" /\ flag
                 THEN value.individual_scores ELSE None
         IN  [cache |-> (metric_id :>
                            CachedMetricResult(metric_id, score,
                                               individual_scores)) @@ cache,
              ret |-> <<MetricResult(metric_id, score, weight,
                                     individual_scores)>>,
              raised |-> FALSE]

\* Normalize with the 0.0 of a failed metric function returned but not cached.
NormalizeFailureNotCached(cache, metric_id, weight, value, flag) ==
    IF value.kind = "None"
    THEN [cache |-> cache, ret |-> <<>>, raised |-> FALSE]
    ELSE IF value.kind = "dict" /\ ~flag
    THEN [cache |-> cache, ret |-> <<>>, raised |-> TRUE]
    ELSE LET score == value.score
             individual_scores ==
                 IF value.kind = "dict" /\ flag
                 THEN value.individual_scores ELSE None
         IN  [cache |-> IF value.how = "exception" THEN cache
                        ELSE (metric_id :>
                                 CachedMetricResult(metric_id, score,
                                                    individual_scores))
                             @@ cache,
              ret |-> <<MetricResult(metric_id, score, weight,
                                     individual_scores)>>,
              raised |-> FALSE]

\* The part after execute_metric returned value (gqm.py 193-217): the new
\* cache, the MetricResult returned (a 0/1 sequence: <<>> is None) and
\* whether float(value) raised.
Normalize(cache, metric_id, weight, value, flag) ==
    IF value.kind = "None"
    THEN [cache |-> cache, ret |-> <<>>, raised |-> FALSE]
    ELSE IF value.kind = "dict" /\ ~flag
    THEN [cache |-> cache, ret |-> <<>>, raised |-> TRUE]
    ELSE LET score == value.score
             individual_scores ==
                 IF value.kind = "dict" /\ flag
                 THEN value.individual_scores ELSE None
         IN  [cache |-> (metric_id :>
                            CachedMetricResult(metric_id, score,
                                               individual_scores)) @@ cache,
              ret |-> <<MetricResult(metric_id, score, weight,
                                     individual_scores)>>,
              raised |-> FALSE]

\* The cache hit with the weight argument dropped: the dataclass default.
FromCacheDefaultWeight(cache, metric_id, weight) ==
    MetricResult(metric_id, cache[metric_id].value, One,
                 cache[metric_id].individual_scores)

\* The cache hit (gqm.py 177-187).
FromCache(cache, metric_id, weight) ==
    MetricResult(metric_id, cache[metric_id].value, weight,
                 cache[metric_id].individual_scores)

----------------------------------------------------------------------------
(* Configurations (config.py: EvaluationConfig, GoalConfig, QuestionConfig)*)
(* the model runs on.  A metrics dict is a sequence of distinct            *)
(* identifiers in declared order, Python dicts being insertion-ordered.    *)

ConfigMetricIds == {"faithfulness", "multi_hop_reasoning", "no_such_metric"}
SharedMetricIds == {"faithfulness", "multi_hop_reasoning"}
Weights == {Zero, Half, One}

SeqsUpTo(S, n) == UNION {[1..k -> S] : k \in 0..n}

\* Metric maps of at most n entries over the identifiers ids, weights ws.
MetricMaps(ids, ws, n) ==
    {m \in SeqsUpTo([id : ids, weight : ws], n) :
        \A i, j \in DOMAIN m : i # j => m[i].id # m[j].id}

RECURSIVE Total(_)
Total(n) == IF n = <<>> THEN 0 ELSE Total(Tail(n)) + Head(n)

\* Goal g, named g, with the questions qs; its q-th question is <<g, q>>.
GoalConfig(g, w, qs) ==
    [name |-> g, weight |-> w,
     questions |-> [q \in DOMAIN qs |->
         [text |-> <<g, q>>, weight |-> qs[q].weight,
          metrics |-> qs[q].metrics]]]

\* n[g] questions in goal g, the questions taken from qs in order.
RECURSIVE Split(_, _)
Split(n, qs) ==
    IF n = <<>> THEN <<>>
    ELSE LET k == Len(n)
             before == Total(SubSeq(n, 1, k - 1))
         IN  Append(Split(SubSeq(n, 1, k - 1), SubSeq(qs, 1, before)),
                    SubSeq(qs, before + 1, before + n[k]))

Shapes(nq) == {n \in SeqsUpTo(0..nq, MaxGoals) : Total(n) = nq}

\* Configurations with one question at most: every metric map over the three
\* identifiers and the three weights.
SmallConfigs ==
    {[g \in DOMAIN n |-> GoalConfig(g, One, Split(n, qs)[g])] :
        n \in UNION {Shapes(k) : k \in 0..1},
        qs \in {<<[weight |-> One, metrics |-> m]>> :
                   m \in MetricMaps(ConfigMetricIds, Weights, MaxMetrics)}}

\* Configurations with two to MaxQuestions questions, in one goal or spread
\* over the goals, at most MaxRefs references in all.
TreeConfigs ==
    {[g \in DOMAIN n |-> GoalConfig(g, One, Split(n, qs)[g])] :
        n \in {s \in UNION {Shapes(k) : k \in 2..MaxQuestions} :
                  \A g \in DOMAIN s : s[g] >= 1},
        qs \in {s \in [1..MaxQuestions ->
                          {[weight |-> One, metrics |-> m] :
                              m \in MetricMaps(SharedMetricIds, {Half, One},
                                               MaxMetrics)}] :
                   Total([q \in DOMAIN s |-> Len(s[q].metrics)]) <= MaxRefs}}

\* One goal of two questions with their own weights: the first without
\* metrics or with an unknown identifier, the second with one metric.
EdgeConfigs ==
    {<<GoalConfig(1, One, <<[weight |-> w, metrics |-> m1],
                           [weight |-> One, metrics |-> m2]>>)>> :
        w \in {Half, One},
        m1 \in {<<>>, <<[id |-> "no_such_metric", weight |-> Half]>>},
        m2 \in {<<[id |-> "faithfulness", weight |-> One]>>,
                <<[id |-> "no_such_metric", weight |-> One]>>}}

Configs == SmallConfigs \cup TreeConfigs \cup EdgeConfigs

\* The number of metric references of a configuration.
RECURSIVE Refs(_)
Refs(c) ==
    IF c = <<>> THEN 0
    ELSE Refs(Tail(c))
         + Total([q \in DOMAIN Head(c).questions |->
                     Len(Head(c).questions[q].metrics)])

----------------------------------------------------------------------------
(* EvaluationPipeline.evaluate -> GQMFramework.evaluate, step by step.     *)

\* History records: a query, the unload, an execute_metric call with what
\* it returned (ret), or a cache hit with the run that stored the entry.
Event(kind, id, g, q, out) ==
    [kind |-> kind, id |-> id, g |-> g, q |-> q, out |-> out, ret |-> NoData]

Executed(id, g, q, value) ==
    [kind |-> "execute", id |-> id, g |-> g, q |-> q,
     out |-> IF value.kind = "None" THEN "None" ELSE value.how,
     ret |-> value]

\* The question types a TestCase carries: a QuestionType member (the
\* dataclass default is QuestionType.SIMPLE) or the string of a generated
\* or cached question.
QuestionTypes == {SIMPLE, COMPLEX, "complex"}

\* The callers of save_results.
Writers == 1..MaxWriters

\* The test-case lists handed to evaluate().
TestCaseLists == SeqsUpTo(QuestionTypes, MaxCases)

TypeOK ==
    /\ detailed \in BOOLEAN
    /\ metric_shape \in {"by_flag", "float", "dict"}
    /\ rag \in {"loaded", "unloaded"}
    /\ run \in 0..MaxRuns
    /\ pc \in {"idle", "generate", "query", "metrics", "done", "raised",
             "built", "called"}
    /\ Len(result) <= 1
    /\ clock \in 0..MaxClock
    /\ \A w \in Writers : saving[w].pc \in {"idle", "open", "saved", "raised"}

\* No save_results call has started and the output directory is empty.
NothingSaved ==
    /\ clock = 0
    /\ output_dir = [path \in {} |-> <<>>]
    /\ saving = [w \in Writers |-> [pc |-> "idle", path |-> <<>>]]
    /\ saves = <<>>

\* Nothing was served, no metric function was called on its own, and the
\* process holds no Gemini client (_gemini_client_instance = None).
NothingElse ==
    /\ served = <<>>
    /\ responses = <<>>
    /\ returned = <<>>
    /\ gemini_client_instance = None
    /\ constructed = 0
    /\ calls = <<>>

\* GQMFramework.__init__: the cache is created empty, once per framework.
NewFramework(cfg, flag, shape) ==
    /\ config = cfg
    /\ detailed = flag
    /\ metric_shape = shape
    /\ metric_cache = NoCache
    /\ cache_run = [m \in {} |-> 0]
    /\ rag = "loaded"
    /\ run = 0
    /\ pc = "idle"
    /\ test_cases = <<>>
    /\ test_case_results = <<>>
    /\ gi = 1 /\ qi = 1 /\ mi = 1
    /\ metric_results = <<>>
    /\ question_results = <<>>
    /\ goal_results = <<>>
    /\ result = <<>>
    /\ score_read = <<>>
    /\ events = <<>>

\* A framework whose evaluate() is handed its test cases: the configuration
\* names no question type to generate.
InitFramework(cfg, flag, shape) ==
    /\ NewFramework(cfg, flag, shape)
    /\ NothingSaved
    /\ NothingElse
    /\ test_case_generation = {}

Init == \E cfg \in Configs, flag \in BOOLEAN :
            InitFramework(cfg, flag, "by_flag")

\* evaluate(test_cases, rag_system) is entered: with a new adapter, or with
\* the adapter of the previous call.
Enter(tcs, fresh) ==
    /\ run' = run + 1
    /\ pc' = "query"
    /\ rag' = IF fresh THEN "loaded" ELSE rag
    /\ test_cases' = [i \in DOMAIN tcs |-> TestCase(i, tcs[i])]
    /\ test_case_results' = <<>>
    /\ gi' = 1 /\ qi' = 1 /\ mi' = 1
    /\ metric_results' = <<>>
    /\ question_results' = <<>>
    /\ goal_results' = <<>>
    /\ result' = <<>>
    /\ score_read' = <<>>
    /\ events' = <<>>
    /\ UNCHANGED <<config, detailed, metric_shape, metric_cache, cache_run>>
    /\ UNCHANGED <<save_vars, other_vars>>

\* The first evaluate() on a framework.
Evaluate(tcs, fresh) ==
    /\ pc = "idle"
    /\ Enter(tcs, fresh)

\* A later evaluate() on the same framework, after the previous call
\* returned or raised.
EvaluateAgain(tcs, fresh) ==
    /\ pc \in {"done", "raised"}
    /\ run < MaxRuns
    /\ Enter(tcs, fresh)

\* _test_rag_system with a failed query ending the run.
QueryTestCaseAborts ==
    /\ pc = "query"
    /\ Len(test_case_results) < Len(test_cases)
    /\ LET test_case == test_cases[Len(test_case_results) + 1]
       IN  \E rag_result \in QueryOutcomes(rag) :
             /\ test_case_results' =
                    IF rag_result.raised THEN test_case_results
                    ELSE Append(test_case_results,
                           TestCaseResult(test_case.question, rag_result.answer,
                                          rag_result.retrieved_documents,
                                          test_case.ground_truth,
                                          test_case.entities,
                                          test_case.question_type))
             /\ pc' = IF rag_result.raised THEN "raised" ELSE pc
             /\ events' = Append(events,
                    Event("query", "", test_case.question, 0,
                          IF rag_result.raised THEN "failed" ELSE "ok"))
    /\ UNCHANGED <<config, detailed, metric_shape, metric_cache, cache_run,
                   rag, run, test_cases, gi, qi, mi, metric_results,
                   question_results, goal_results, result, score_read>>
    /\ UNCHANGED <<save_vars, other_vars>>

\* _test_rag_system with a failed query tried again.
QueryTestCaseRetry ==
    /\ pc = "query"
    /\ Len(test_case_results) < Len(test_cases)
    /\ LET test_case == test_cases[Len(test_case_results) + 1]
       IN  \E rag_result \in QueryOutcomes(rag) :
             /\ test_case_results' =
                    IF rag_result.raised THEN test_case_results
                    ELSE Append(test_case_results,
                           TestCaseResult(test_case.question, rag_result.answer,
                                          rag_result.retrieved_documents,
                                          test_case.ground_truth,
                                          test_case.entities,
                                          test_case.question_type))
             /\ events' = Append(events,
                    Event("query", "", test_case.question, 0,
                          IF rag_result.raised THEN "failed" ELSE "ok"))
    /\ UNCHANGED <<config, detailed, metric_shape, metric_cache, cache_run,
                   rag, run, pc, test_cases, gi, qi, mi, metric_results,
                   question_results, goal_results, result, score_read>>
    /\ UNCHANGED <<save_vars, other_vars>>

\* _test_rag_system: one iteration of the loop over test_cases.
QueryTestCase ==
    /\ pc = "query"
    /\ Len(test_case_results) < Len(test_cases)
    /\ LET test_case == test_cases[Len(test_case_results) + 1]
       IN  \E rag_result \in QueryOutcomes(rag) :
             /\ test_case_results' = Append(test_case_results,
                    TestCaseResult(test_case.question, rag_result.answer,
                                   rag_result.retrieved_documents,
                                   test_case.ground_truth, test_case.entities,
                                   test_case.question_type))
             /\ events' = Append(events,
                    Event("query", "", test_case.question, 0,
                          IF rag_result.raised THEN "failed" ELSE "ok"))
    /\ UNCHANGED <<config, detailed, metric_shape, metric_cache, cache_run,
                   rag, run, pc, test_cases, gi, qi, mi, metric_results,
                   question_results, goal_results, result, score_read>>
    /\ UNCHANGED <<save_vars, other_vars>>

\* The release step taken before the loop over test_cases has finished.
UnloadRagSystemEarly ==
    /\ pc = "query"
    /\ rag' = "unloaded"
    /\ pc' = "metrics"
    /\ events' = Append(events, Event("unload", "", 0, 0, "ok"))
    /\ UNCHANGED <<config, detailed, metric_shape, metric_cache, cache_run,
                   run, test_cases, test_case_results, gi, qi, mi,
                   metric_results, question_results, goal_results, result, score_read>>
    /\ UNCHANGED <<save_vars, other_vars>>

\* _unload_rag_system, then time.sleep(5).
UnloadRagSystem ==
    /\ pc = "query"
    /\ Len(test_case_results) = Len(test_cases)
    /\ rag' = "unloaded"
    /\ pc' = "metrics"
    /\ events' = Append(events, Event("unload", "", 0, 0, "ok"))
    /\ UNCHANGED <<config, detailed, metric_shape, metric_cache, cache_run,
                   run, test_cases, test_case_results, gi, qi, mi,
                   metric_results, question_results, goal_results, result, score_read>>
    /\ UNCHANGED <<save_vars, other_vars>>

\* _unload_rag_system with the exception of a failing step passed on.
UnloadRagSystemRaises ==
    /\ pc = "query"
    /\ Len(test_case_results) = Len(test_cases)
    /\ rag' \in {rag, "unloaded"}
    /\ pc' = "raised"
    /\ events' = Append(events, Event("unload", "", 0, 0, "failed"))
    /\ UNCHANGED <<config, detailed, metric_shape, metric_cache, cache_run,
                   run, test_cases, test_case_results, gi, qi, mi,
                   metric_results, question_results, goal_results, result, score_read>>
    /\ UNCHANGED <<save_vars, other_vars>>

\* _unload_rag_system when one of its steps raises: the except branch logs a
\* warning and returns; the adapter is left as it was or already cleared.
UnloadRagSystemFails ==
    /\ pc = "query"
    /\ Len(test_case_results) = Len(test_cases)
    /\ rag' \in {rag, "unloaded"}
    /\ pc' = "metrics"
    /\ events' = Append(events, Event("unload", "", 0, 0, "failed"))
    /\ UNCHANGED <<config, detailed, metric_shape, metric_cache, cache_run,
                   run, test_cases, test_case_results, gi, qi, mi,
                   metric_results, question_results, goal_results, result, score_read>>
    /\ UNCHANGED <<save_vars, other_vars>>

InGoal == pc = "metrics" /\ gi <= Len(config)
InQuestion == InGoal /\ qi <= Len(config[gi].questions)
InMetric == InQuestion /\ mi <= Len(config[gi].questions[qi].metrics)

\* A returned MetricResult inserted at the head of the list.
KeepResultFirst(results, ret) == ret \o results

\* evaluate_question: the list it appends a returned MetricResult to.
KeepResult(results, ret) == results \o ret

\* A loop over the metric map from its last entry to its first.
MetricAtReversed(g, q, k) ==
    config[g].questions[q].metrics[Len(config[g].questions[q].metrics) + 1 - k]

\* for metric_id, weight in question_config.metrics.items(): the k-th entry
\* (a dict iterates in insertion order).
MetricAt(g, q, k) == config[g].questions[q].metrics[k]

\* evaluate_question: one iteration of the loop over metrics.items(), a call
\* of _get_or_execute_metric.
GetOrExecuteMetric ==
    /\ InMetric
    /\ LET m == MetricAt(gi, qi, mi)
       IN  IF m.id \in DOMAIN metric_cache
           THEN /\ metric_results' =
                       KeepResult(metric_results,
                                  <<FromCache(metric_cache, m.id, m.weight)>>)
                /\ events' = Append(events,
                       Event("cached", m.id, gi, qi, cache_run[m.id]))
                /\ mi' = mi + 1
                /\ UNCHANGED <<metric_cache, cache_run, pc>>
           ELSE \E value \in ExecuteMetric(m.id, test_case_results, detailed,
                                            metric_shape) :
                  LET r == Normalize(metric_cache, m.id, m.weight, value,
                                     detailed)
                  IN  /\ metric_cache' = r.cache
                      /\ cache_run' = IF m.id \in DOMAIN r.cache
                                      THEN (m.id :> run) @@ cache_run
                                      ELSE cache_run
                      /\ metric_results' = KeepResult(metric_results, r.ret)
                      /\ events' = Append(events,
                             Executed(m.id, gi, qi, value))
                      /\ pc' = IF r.raised THEN "raised" ELSE pc
                      /\ mi' = mi + 1
    /\ UNCHANGED <<config, detailed, metric_shape, rag, run, test_cases,
                   test_case_results, gi, qi, question_results, goal_results,
                   result, score_read>>
    /\ UNCHANGED <<save_vars, other_vars>>

\* evaluate_question returns; evaluate_goal appends the QuestionResult.
QuestionDone ==
    /\ InQuestion
    /\ mi > Len(config[gi].questions[qi].metrics)
    /\ question_results' = Append(question_results,
           QuestionResult(config[gi].questions[qi].text, metric_results,
                          config[gi].questions[qi].weight))
    /\ metric_results' = <<>>
    /\ qi' = qi + 1
    /\ mi' = 1
    /\ UNCHANGED <<config, detailed, metric_shape, metric_cache, cache_run,
                   rag, run, pc, test_cases, test_case_results, gi,
                   goal_results, result, score_read, events>>
    /\ UNCHANGED <<save_vars, other_vars>>

\* evaluate_goal returns; evaluate appends the GoalResult.
GoalDone ==
    /\ InGoal
    /\ qi > Len(config[gi].questions)
    /\ goal_results' = Append(goal_results,
           GoalResult(config[gi].name, question_results, config[gi].weight))
    /\ question_results' = <<>>
    /\ gi' = gi + 1
    /\ qi' = 1
    /\ UNCHANGED <<config, detailed, metric_shape, metric_cache, cache_run,
                   rag, run, pc, test_cases, test_case_results, mi,
                   metric_results, result, score_read, events>>
    /\ UNCHANGED <<save_vars, other_vars>>

\* GQMFramework.evaluate returns EvaluationResult(goals=goal_results);
\* EvaluationPipeline.evaluate then formats result.score into its log line
\* and returns the result, unless computing the score raised.
ReturnResult ==
    /\ pc = "metrics"
    /\ gi > Len(config)
    /\ LET score == EvaluationScore(EvaluationResult(goal_results))
       IN  /\ result' = <<EvaluationResult(goal_results)>>
           /\ score_read' = <<score>>
           /\ pc' = IF score.raised THEN "raised" ELSE "done"
    /\ UNCHANGED <<config, detailed, metric_shape, metric_cache, cache_run,
                   rag, run, test_cases, test_case_results, gi, qi, mi,
                   metric_results, question_results, goal_results, events>>
    /\ UNCHANGED <<save_vars, other_vars>>

Next ==
    \/ \E tcs \in TestCaseLists : Evaluate(tcs, TRUE)
    \/ QueryTestCase
    \/ UnloadRagSystem
    \/ GetOrExecuteMetric
    \/ QuestionDone
    \/ GoalDone
    \/ ReturnResult

Spec == Init /\ [][Next]_vars

\* Repeated evaluate() calls on one framework.
RerunConfigs == {c \in SmallConfigs : Refs(c) <= 1}

InitRerun == \E cfg \in RerunConfigs, flag \in BOOLEAN :
                 InitFramework(cfg, flag, "by_flag")

NextRerun ==
    \/ \E tcs \in TestCaseLists : Evaluate(tcs, TRUE)
    \/ \E tcs \in TestCaseLists : EvaluateAgain(tcs, TRUE)
    \/ QueryTestCase
    \/ UnloadRagSystem
    \/ GetOrExecuteMetric
    \/ QuestionDone
    \/ GoalDone
    \/ ReturnResult

SpecRerun == InitRerun /\ [][NextRerun]_vars

\* One run over a batch of up to MaxBatch test cases, any subset of the
\* queries failing, the release of the RAG system succeeding or failing.
BatchLists == SeqsUpTo(QuestionTypes, MaxBatch)

NextBatch ==
    \/ \E tcs \in BatchLists : Evaluate(tcs, TRUE)
    \/ QueryTestCase
    \/ UnloadRagSystem
    \/ UnloadRagSystemFails
    \/ GetOrExecuteMetric
    \/ QuestionDone
    \/ GoalDone
    \/ ReturnResult

SpecBatch == InitRerun /\ [][NextBatch]_vars

\* Two runs of one framework on the same adapter object: the second
\* evaluate() gets the adapter as the first one left it.
NextSameAdapter ==
    \/ \E tcs \in BatchLists : Evaluate(tcs, TRUE)
    \/ \E tcs \in BatchLists : EvaluateAgain(tcs, FALSE)
    \/ QueryTestCase
    \/ UnloadRagSystem
    \/ UnloadRagSystemFails
    \/ GetOrExecuteMetric
    \/ QuestionDone
    \/ GoalDone
    \/ ReturnResult

SpecSameAdapter == InitRerun /\ [][NextSameAdapter]_vars

\* EvaluationPipeline.save_results and EvaluationResult.save.

\* The path save_results derives from time.strftime('%Y%m%d_%H%M%S'): one
\* name per clock second.
ResultPath(second) == <<"evaluation_result_", second, ".json">>

\* NumpyEncoder.default on a question_type: a str is written by the encoder
\* itself; a QuestionType member is no numpy value and has no item(), so
\* json raises TypeError.
Serializable(question_type) == question_type \notin {SIMPLE, COMPLEX}

\* json.dump reaches every value of the document: it completes only if
\* every entry of every breakdown can be serialized.
Dumpable(e) ==
    \A g \in DOMAIN e.goals : \A q \in DOMAIN e.goals[g].questions :
        \A k \in DOMAIN e.goals[g].questions[q].metrics :
            LET m == e.goals[g].questions[q].metrics[k]
            IN  has_details(m) =>
                    \A i \in DOMAIN m.individual_scores.items :
                        Serializable(m.individual_scores.items[i].question_type)

\* A file of the output directory: who opened it, in order, how far it is
\* written, and the document it holds when complete.
File(writers, state, doc) == [writers |-> writers, state |-> state, doc |-> doc]

OpenedBy(path) ==
    IF path \in DOMAIN output_dir THEN output_dir[path].writers ELSE <<>>

\* json.load of a complete file, rebuilt as the dataclasses.
Parse(doc) ==
    EvaluationResult([g \in DOMAIN doc.goals |->
        GoalResult(doc.goals[g].name,
            [q \in DOMAIN doc.goals[g].questions |->
                QuestionResult(doc.goals[g].questions[q].text,
                    [k \in DOMAIN doc.goals[g].questions[q].metrics |->
                        LET entry == doc.goals[g].questions[q].metrics[k]
                        IN  MetricResult(entry.id, entry.value, entry.weight,
                                IF "individual_scores" \in DOMAIN entry
                                THEN Some(entry.individual_scores)
                                ELSE None)],
                    doc.goals[g].questions[q].weight)],
            doc.goals[g].weight)])

\* save_results up to open(filepath, 'w') in EvaluationResult.save: the path
\* is taken from the clock and the file is created, or truncated if there.
SaveOpen(w) ==
    /\ pc = "done"
    /\ saving[w].pc = "idle"
    /\ LET path == ResultPath(clock)
       IN  /\ output_dir' = (path :> File(Append(OpenedBy(path), w),
                                          "empty", <<>>)) @@ output_dir
           /\ saving' = [saving EXCEPT ![w] = [pc |-> "open", path |-> path]]
           /\ saves' = Append(saves, [by |-> w, path |-> path])
    /\ UNCHANGED <<config, detailed, metric_shape, metric_cache, cache_run,
                   rag, run, pc, test_cases, test_case_results, gi, qi, mi,
                   metric_results, question_results, goal_results, result,
                   score_read, events, clock>>
    /\ UNCHANGED other_vars

\* json.dump(self.to_dict(), f, indent=2, cls=NumpyEncoder) and the close of
\* the file: the document is written in pieces, and a value that cannot be
\* serialized raises TypeError with the pieces before it already written.
SaveDump(w) ==
    /\ saving[w].pc = "open"
    /\ LET path == saving[w].path
       IN  IF Dumpable(result[1])
           THEN /\ output_dir' = [output_dir EXCEPT ![path] =
                       File(@.writers, "complete", <<ToDict(result[1])>>)]
                /\ saving' = [saving EXCEPT ![w].pc = "saved"]
           ELSE /\ output_dir' = [output_dir EXCEPT ![path] =
                       File(@.writers, "partial", <<>>)]
                /\ saving' = [saving EXCEPT ![w].pc = "raised"]
    /\ UNCHANGED <<config, detailed, metric_shape, metric_cache, cache_run,
                   rag, run, pc, test_cases, test_case_results, gi, qi, mi,
                   metric_results, question_results, goal_results, result,
                   score_read, events, clock, saves>>
    /\ UNCHANGED other_vars

\* A second of wall-clock time passes.  Only save_results reads the clock,
\* so the time a run takes is left out.
Tick ==
    /\ pc = "done"
    /\ clock < MaxClock
    /\ clock' = clock + 1
    /\ UNCHANGED <<config, detailed, metric_shape, metric_cache, cache_run,
                   rag, run, pc, test_cases, test_case_results, gi, qi, mi,
                   metric_results, question_results, goal_results, result,
                   score_read, events, output_dir, saving, saves>>
    /\ UNCHANGED other_vars

\* dashboard/backend/app.py runs in its own process (launch_dashboard starts
\* it with subprocess.Popen) and reads the output directory while
\* save_results writes it.  What a request finds in a file: the text
\* written so far.
Response(endpoint, path, status, content) ==
    [endpoint |-> endpoint, path |-> path, status |-> status,
     content |-> content]

\* GET /api/evaluations/{evaluation_id}: 404 when the file does not exist,
\* the parsed document when json.load succeeds, 500 when it raises (an empty
\* or a cut-off text is no JSON document).
get_evaluation_detail(path) ==
    IF path \notin DOMAIN output_dir
    THEN Response("detail", path, 404, "none")
    ELSE IF output_dir[path].state = "complete"
         THEN Response("detail", path, 200, "complete")
         ELSE Response("detail", path, 500, output_dir[path].state)

\* GET /api/evaluations: every *.json file of the directory is listed with
\* its name and the size it has at that moment.
get_evaluations ==
    [path \in DOMAIN output_dir |->
        Response("list", path, 200, output_dir[path].state)]

\* The dashboard answers a detail request.
GetEvaluationDetail(second) ==
    /\ pc = "done"
    /\ served' = <<get_evaluation_detail(ResultPath(second))>>
    /\ UNCHANGED <<config, detailed, metric_shape, metric_cache, cache_run,
                   rag, run, pc, test_cases, test_case_results, gi, qi, mi,
                   metric_results, question_results, goal_results, result,
                   score_read, events>>
    /\ UNCHANGED <<save_vars, test_case_generation, responses, returned,
                   client_vars>>

\* The dashboard answers a list request: one entry per file.
GetEvaluations ==
    /\ pc = "done"
    /\ \E path \in DOMAIN output_dir : served' = <<get_evaluations[path]>>
    /\ UNCHANGED <<config, detailed, metric_shape, metric_cache, cache_run,
                   rag, run, pc, test_cases, test_case_results, gi, qi, mi,
                   metric_results, question_results, goal_results, result,
                   score_read, events>>
    /\ UNCHANGED <<save_vars, test_case_generation, responses, returned,
                   client_vars>>

\* One question with one metric: the runs whose result is saved.
SaveConfigs ==
    {<<GoalConfig(1, One, <<[weight |-> One,
                             metrics |-> <<[id |-> id, weight |-> One]>>]>>)>> :
        id \in {"faithfulness", "no_such_metric"}}

InitSave == \E cfg \in SaveConfigs, flag \in BOOLEAN :
                InitFramework(cfg, flag, "by_flag")

NextSave ==
    \/ \E tcs \in TestCaseLists : Evaluate(tcs, TRUE)
    \/ QueryTestCase
    \/ UnloadRagSystem
    \/ GetOrExecuteMetric
    \/ QuestionDone
    \/ GoalDone
    \/ ReturnResult
    \/ \E w \in Writers : SaveOpen(w)
    \/ \E w \in Writers : SaveDump(w)
    \/ Tick
    \/ \E second \in 0..MaxClock : GetEvaluationDetail(second)
    \/ GetEvaluations

SpecSave == InitSave /\ [][NextSave]_vars

\* The three score properties applied to result trees built directly from
\* the dataclasses: values and weights at every level.
Values == {Zero, Rat(2, 5), Rat(4, 5), One}

MetricLists(vs, ws, n) ==
    {[k \in DOMAIN l |->
          MetricResult(<<"faithfulness", "multi_hop_reasoning",
                        "context_recall">>[k],
                      l[k][1], l[k][2], None)] :
        l \in SeqsUpTo(vs \X ws, n)}

QuestionResults(vs, ws, n, qws) ==
    {QuestionResult(<<1, 1>>, ms, w) : ms \in MetricLists(vs, ws, n), w \in qws}

\* One question with up to MaxMetrics metrics; one goal with up to
\* MaxQuestions questions; up to MaxGoals goals.
ScoreTrees ==
    {EvaluationResult(<<GoalResult(1, <<q>>, w)>>) :
        q \in QuestionResults(Values, Weights, MaxMetrics, Weights),
        w \in Weights}
    \cup
    {EvaluationResult(<<GoalResult(1, qs, w)>>) :
        qs \in SeqsUpTo(QuestionResults({Rat(2, 5), Rat(4, 5)}, {One}, 1,
                                        Weights), MaxQuestions),
        w \in Weights}
    \cup
    {EvaluationResult(gs) :
        gs \in SeqsUpTo({GoalResult(1, qs, w) :
                            qs \in SeqsUpTo(QuestionResults(
                                      {Rat(2, 5), Rat(4, 5)}, {One}, 1,
                                      Weights), 1),
                            w \in Weights}, MaxGoals)}

InitScore ==
    /\ \E tree \in ScoreTrees : result = <<tree>>
    /\ config = <<>>
    /\ detailed = FALSE
    /\ metric_shape = "by_flag"
    /\ metric_cache = NoCache
    /\ cache_run = [m \in {} |-> 0]
    /\ rag = "loaded"
    /\ run = 0
    /\ pc = "built"
    /\ test_cases = <<>>
    /\ test_case_results = <<>>
    /\ gi = 1 /\ qi = 1 /\ mi = 1
    /\ metric_results = <<>>
    /\ question_results = <<>>
    /\ goal_results = <<>>
    /\ score_read = <<>>
    /\ events = <<>>
    /\ NothingSaved
    /\ NothingElse
    /\ test_case_generation = {}

ReadScore(value) ==
    /\ pc = "built"
    /\ score_read' = <<value>>
    /\ UNCHANGED <<config, detailed, metric_shape, metric_cache, cache_run,
                   rag, run, pc, test_cases, test_case_results, gi, qi, mi,
                   metric_results, question_results, goal_results, result,
                   events>>
    /\ UNCHANGED <<save_vars, other_vars>>

\* question.score, goal.score and result.score are read.
ReadQuestionScore ==
    \E g \in DOMAIN result[1].goals :
        \E q \in DOMAIN result[1].goals[g].questions :
            ReadScore(QuestionScore(result[1].goals[g].questions[q]))

ReadGoalScore ==
    \E g \in DOMAIN result[1].goals : ReadScore(GoalScore(result[1].goals[g]))

ReadEvaluationScore == ReadScore(EvaluationScore(result[1]))

NextScore == ReadQuestionScore \/ ReadGoalScore \/ ReadEvaluationScore

SpecScore == InitScore /\ [][NextScore]_vars

\* The dispatcher fed by metric functions of either result shape, whatever
\* the flag says (the signature float | dict of the pluggable capability).
InitPluggable == \E cfg \in RerunConfigs, flag \in BOOLEAN,
                    shape \in {"by_flag", "float", "dict"} :
                     InitFramework(cfg, flag, shape)

SpecPluggable == InitPluggable /\ [][Next]_vars

----------------------------------------------------------------------------
(* EvaluationPipeline.evaluate with the test cases generated from the      *)
(* configuration.                                                          *)

\* constants.py: the values QuestionType(question_type_str) accepts.
QuestionTypeValues ==
    {"simple", "complex", "distracting", "situational", "double",
     "conversational"}

\* The keys a test_case_generation dict is given in the model.
TestCaseGenerations == SUBSET {"simple", "complex", "tricky"}

\* What generate_test_cases gives: a list of question types, one per test
\* case, or an exception.
Generated(tcs) == [raised |-> FALSE, exc |-> "", val |-> tcs]

\* generate_test_cases that goes on with no question type.
GenerateTestCasesUnchecked(generation) ==
    {Generated(tcs) :
        tcs \in SeqsUpTo(generation \cap QuestionTypeValues, MaxCases)}

\* EvaluationPipeline.generate_test_cases: unknown keys are skipped with a
\* warning; with no key left it raises ValueError, else generate_questions
\* answers from the cache or the LLM (the question type is the string
\* value), gives [] when the LLM call fails, or raises (Pinecone).
generate_test_cases(generation) ==
    LET question_types == generation \cap QuestionTypeValues
    IN  IF question_types = {}
        THEN {Raised("ValueError")}
        ELSE {Generated(tcs) : tcs \in SeqsUpTo(question_types, MaxCases)}
                 \cup {Raised("ValueError")}

\* EvaluationPipeline.evaluate(rag_system): test_cases is None.
PipelineEvaluate ==
    /\ pc = "idle"
    /\ pc' = "generate"
    /\ UNCHANGED <<config, detailed, metric_shape, metric_cache, cache_run,
                   rag, run, test_cases, test_case_results, gi, qi, mi,
                   metric_results, question_results, goal_results, result,
                   score_read, events>>
    /\ UNCHANGED <<save_vars, other_vars>>

\* test_cases = self.generate_test_cases(...): an exception leaves
\* evaluate; else self.framework.evaluate(test_cases, rag_system) starts.
GenerateTestCases ==
    /\ pc = "generate"
    /\ \E out \in generate_test_cases(test_case_generation) :
           IF out.raised
           THEN /\ pc' = "raised"
                /\ UNCHANGED <<config, detailed, metric_shape, metric_cache,
                               cache_run, rag, run, test_cases,
                               test_case_results, gi, qi, mi, metric_results,
                               question_results, goal_results, result,
                               score_read, events>>
                /\ UNCHANGED <<save_vars, other_vars>>
           ELSE Enter(out.val, TRUE)

InitPipeline ==
    \E cfg \in SaveConfigs, flag \in BOOLEAN,
       generation \in TestCaseGenerations :
        /\ NewFramework(cfg, flag, "by_flag")
        /\ NothingSaved
        /\ NothingElse
        /\ test_case_generation = generation

\* evaluate(rag_system) or evaluate(rag_system, test_cases), once.
NextPipeline ==
    \/ PipelineEvaluate
    \/ GenerateTestCases
    \/ \E tcs \in TestCaseLists : Evaluate(tcs, TRUE)
    \/ QueryTestCase
    \/ UnloadRagSystem
    \/ GetOrExecuteMetric
    \/ QuestionDone
    \/ GoalDone
    \/ ReturnResult

SpecPipeline == InitPipeline /\ [][NextPipeline]_vars

----------------------------------------------------------------------------
(* The fifteen metric functions, one test case at a time.                  *)
(* metrics/generation_metrics.py, retrieval_metrics.py, system_metrics.py  *)

\* What the remote calls made for one test case give: the call raises
\* (GeminiClient.generate wraps every API error in RuntimeError), or the
\* response text holds a first number "rating" (none: <<>>), "lines"
\* numbered lines and a JSON array of digits "array" (none: <<>>); "score"
\* is what the local scoring model gives (HHEM probability, BERTScore F1,
\* cosine similarity of the embeddings, share of the entities found).
Ratings == {<<>>, <<7>>, <<85>>}
Lines == {0, 2, 6}
Arrays == {<<>>, << <<1, 0>> >>, << <<1, 9>> >>}
ModelScores == {Zero, Rat(4, 5)}

Failing ==
    [raised |-> TRUE, rating |-> <<>>, lines |-> 0, array |-> <<>>,
     score |-> Zero]

Responses ==
    {Failing} \cup [raised : {FALSE}, rating : Ratings, lines : Lines,
                    array : Arrays, score : ModelScores]

\* len(result.generated_answer.split()) of the answers of the model.
WordCount(generated_answer) ==
    CASE generated_answer = "" -> 0
      [] generated_answer = "answer" -> 1
      [] OTHER -> 20

\* The TestCaseResult records a metric function is given: the answer is
\* empty, short or of twenty words, zero to two documents were retrieved,
\* the test case has a ground truth or not, and entities or not.
MetricCases ==
    {TestCaseResult("q", a, d, n[1], n[2], t) :
        a \in {"", "answer", "long answer"}, d \in 0..2,
        n \in {<<"", <<>> >>, <<"truth", <<>> >>, <<"truth", <<"entity">> >>},
        t \in QuestionTypes}

\* What the loop body of a metric function does with one test case:
\* continue without counting it; count the score v (adding the entry to
\* detailed_results if "detail", assigning the loop's score variable if
\* "bind"); or fall out of an except branch that assigned nothing and go on
\* with the loop's score variable as it is.
Skip == [act |-> "skip", v |-> Zero, detail |-> FALSE, bind |-> FALSE]
Counted(v, detail, bind) ==
    [act |-> "count", v |-> v, detail |-> detail, bind |-> bind]
Stale == [act |-> "stale", v |-> Zero, detail |-> TRUE, bind |-> FALSE]

\* SystemMetrics._evaluate_with_llm: score / 10 clamped to [0, 1], the
\* default 0.5 when the call raises or the text holds no number.
evaluate_with_llm(x) ==
    IF x.raised \/ x.rating = <<>>
    THEN Half
    ELSE LET score == Rat(x.rating[1], 10)
         IN  IF score[1] > score[2] THEN One
             ELSE IF score[1] < 0 THEN Zero ELSE score

\* sum() of a JSON array of integers.
IntSum(array) == Sum([k \in DOMAIN array |-> Rat(array[k], 1)])

\* context_precision, the try block: average precision over the array.
average_precision(x) ==
    IF x.raised \/ x.array = <<>>
    THEN Zero
    ELSE LET relevance == x.array[1]
             precision_sum ==
                 Sum([k \in DOMAIN relevance |->
                        IF relevance[k] # 0
                        THEN Rat(Cardinality({j \in 1..k : relevance[j] # 0}),
                                 k)
                        ELSE Zero])
         IN  IF IntSum(relevance)[1] > 0
             THEN RDiv(precision_sum, IntSum(relevance))
             ELSE Zero

\* _compute_claim_attribution and _compute_statement_relevance: 0.0 with no
\* item or after an exception; the mean of the array when it has one entry
\* per item; else the number of items over "fallback" (3.0 or 5.0).
attribution_or_fallback(x, fallback) ==
    IF x.raised \/ x.lines = 0
    THEN Zero
    ELSE IF x.array # <<>> /\ Len(x.array[1]) = x.lines
         THEN RDiv(IntSum(x.array[1]), Rat(x.lines, 1))
         ELSE Rat(x.lines, fallback)

compute_claim_attribution(x) == attribution_or_fallback(x, 3)

compute_statement_relevance(x) == attribution_or_fallback(x, 5)

\* The loop bodies.  r is the TestCaseResult, x what the remote calls made
\* for it give.

\* generation_metrics.py.  With no claim extracted the weighted sum over an
\* empty array is 0.0; every claim is scored against the same context.
faithfulness(r, x) ==
    IF r.retrieved_documents = 0 \/ r.generated_answer = ""
    THEN Counted(Zero, FALSE, FALSE)
    ELSE Counted(IF ~x.raised /\ x.lines = 0 THEN Zero ELSE x.score,
                 TRUE, FALSE)

factual_consistency(r, x) ==
    IF r.retrieved_documents = 0 \/ r.generated_answer = ""
    THEN Counted(Zero, FALSE, FALSE)
    ELSE Counted(x.score, TRUE, FALSE)

answer_relevance(r, x) ==
    IF r.generated_answer = ""
    THEN Counted(Zero, FALSE, FALSE)
    ELSE Counted(IF x.raised THEN Zero ELSE x.score, TRUE, FALSE)

\* bertscore without its guard on the answer and the documents.
BertscoreUnguarded(r, x) == Counted(x.score, TRUE, FALSE)

bertscore(r, x) ==
    IF r.generated_answer = "" \/ r.retrieved_documents = 0
    THEN Skip
    ELSE Counted(x.score, TRUE, FALSE)

attribution_score(r, x) ==
    IF r.generated_answer = "" \/ r.retrieved_documents = 0
    THEN Skip
    ELSE IF x.raised \/ x.rating = <<>>
         THEN Skip
         ELSE Counted(Rat(x.rating[1], 10), TRUE, FALSE)

answer_completeness(r, x) ==
    IF r.generated_answer = ""
    THEN Skip
    ELSE IF x.raised \/ x.rating = <<>>
         THEN Stale
         ELSE Counted(Rat(x.rating[1], 10), TRUE, TRUE)

self_consistency_score(r, x) ==
    IF r.generated_answer = ""
    THEN Skip
    ELSE IF WordCount(r.generated_answer) < 20
         THEN Counted(One, FALSE, FALSE)
         ELSE IF x.raised \/ x.rating = <<>>
              THEN Stale
              ELSE Counted(Rat(x.rating[1], 10), TRUE, TRUE)

\* retrieval_metrics.py.
context_precision(r, x) ==
    IF r.retrieved_documents = 0 \/ r.query = ""
    THEN Skip
    ELSE Counted(average_precision(x), TRUE, FALSE)

context_recall(r, x) ==
    IF r.ground_truth = "" \/ r.retrieved_documents = 0
    THEN Counted(Zero, FALSE, FALSE)
    ELSE Counted(compute_claim_attribution(x), TRUE, FALSE)

context_relevance(r, x) ==
    IF r.retrieved_documents = 0 \/ r.query = ""
    THEN Counted(Zero, FALSE, FALSE)
    ELSE Counted(compute_statement_relevance(x), TRUE, FALSE)

context_entities_recall(r, x) ==
    IF r.entities = <<>>
    THEN Skip
    ELSE IF r.retrieved_documents = 0
         THEN Counted(Zero, FALSE, FALSE)
         ELSE Counted(x.score, TRUE, FALSE)

\* The first document scores lambda * sim, each later one lambda * sim -
\* (1 - lambda) * sim = 0 with lambda = 0.5; the mean is normalised by
\* (avg + 1) / 2.  A failed embedding call skips the test case.
semantic_diversity(r, x) ==
    IF r.retrieved_documents < 2
    THEN Skip
    ELSE IF x.raised
         THEN Skip
         ELSE LET avg_mmr == RDiv(RMul(Half, x.score),
                                  Rat(r.retrieved_documents, 1))
              IN  Counted(RMul(RAdd(avg_mmr, One), Half), TRUE, FALSE)

\* system_metrics.py.
answer_correctness(r, x) ==
    IF r.ground_truth = "" \/ r.generated_answer = ""
    THEN Skip
    ELSE Counted(evaluate_with_llm(x), TRUE, FALSE)

multi_hop_reasoning_score(r, x) ==
    IF r.question_type # COMPLEX
    THEN Skip
    ELSE IF r.generated_answer = "" \/ r.retrieved_documents < 2
         THEN Skip
         ELSE Counted(evaluate_with_llm(x), TRUE, FALSE)

context_utilization_rate(r, x) ==
    IF r.retrieved_documents = 0 \/ r.generated_answer = ""
    THEN Skip
    ELSE Counted(evaluate_with_llm(x), TRUE, FALSE)

\* MetricExecutor._metric_functions: the loop body behind each identifier.
LoopBody(metric_id, r, x) ==
    CASE metric_id = "faithfulness" -> faithfulness(r, x)
      [] metric_id = "factual_consistency" -> factual_consistency(r, x)
      [] metric_id = "answer_relevance" -> answer_relevance(r, x)
      [] metric_id = "bertscore" -> bertscore(r, x)
      [] metric_id = "attribution_score" -> attribution_score(r, x)
      [] metric_id = "answer_completeness" -> answer_completeness(r, x)
      [] metric_id = "self_consistency" -> self_consistency_score(r, x)
      [] metric_id = "context_precision" -> context_precision(r, x)
      [] metric_id = "context_recall" -> context_recall(r, x)
      [] metric_id = "context_relevance" -> context_relevance(r, x)
      [] metric_id = "context_entities_recall" ->
             context_entities_recall(r, x)
      [] metric_id = "semantic_diversity" -> semantic_diversity(r, x)
      [] metric_id = "answer_correctness" -> answer_correctness(r, x)
      [] metric_id = "multi_hop_reasoning" -> multi_hop_reasoning_score(r, x)
      [] metric_id = "context_utilization" -> context_utilization_rate(r, x)

\* The for loop of a metric function over the first n test cases: the sum,
\* the count, detailed_results, the loop's score variable (unbound: <<>>)
\* and whether an exception left the loop.  Reading the unbound score
\* variable raises UnboundLocalError.
RECURSIVE Loop(_, _, _, _)
Loop(metric_id, data, xs, n) ==
    IF n = 0
    THEN [total |-> Zero, count |-> 0, detailed_results |-> <<>>,
          score |-> <<>>, raised |-> FALSE]
    ELSE LET before == Loop(metric_id, data, xs, n - 1)
             step == LoopBody(metric_id, data[n], xs[n])
             v == IF step.act = "stale"
                  THEN IF before.score = <<>> THEN Zero ELSE before.score[1]
                  ELSE step.v
         IN  IF before.raised \/ step.act = "skip"
             THEN before
             ELSE IF step.act = "stale" /\ before.score = <<>>
                  THEN [before EXCEPT !.raised = TRUE]
                  ELSE [total |-> RAdd(before.total, v),
                        count |-> before.count + 1,
                        detailed_results |->
                            IF step.detail
                            THEN Append(before.detailed_results,
                                        Detail(data[n], v))
                            ELSE before.detailed_results,
                        score |-> IF step.bind THEN <<v>> ELSE before.score,
                        raised |-> FALSE]

\* What a call gives: the value returned, or an exception.
Returns(value) == [raised |-> FALSE, exc |-> "", val |-> value]

\* A metric function called on a batch: the mean of the counted scores, 0.0
\* when none was counted (None from multi_hop_reasoning_score), as the dict
\* when return_detailed_results is on.
CallMetric(metric_id, data, xs, flag) ==
    LET end == Loop(metric_id, data, xs, Len(data))
        overall_score == IF end.count > 0
                         THEN RDiv(end.total, Rat(end.count, 1))
                         ELSE Zero
    IN  IF end.raised
        THEN [raised |-> TRUE, exc |-> "UnboundLocalError", val |-> NoData]
        ELSE IF metric_id = "multi_hop_reasoning" /\ end.count = 0
             THEN Returns(NoData)
             ELSE IF flag
                  THEN Returns(Structured(overall_score,
                                          end.detailed_results))
                  ELSE Returns(Bare(overall_score, "returned"))

\* Batches of several test cases: a failed query's record, or a short or
\* long answer over two documents, with a response that fails, holds no
\* number, or holds one.
PairCases ==
    {r \in MetricCases :
        /\ r.entities # <<>>
        /\ \/ r.generated_answer = "" /\ r.retrieved_documents = 0
           \/ r.generated_answer # "" /\ r.retrieved_documents = 2}

PairResponses ==
    {x \in Responses :
        x.raised \/ (x.lines = 2 /\ x.array # <<>> /\ x.array[1] = <<1, 0>>
                     /\ x.score = Rat(4, 5))}

\* The batches a metric function is called on, with what the remote calls
\* give for each test case.
MetricInputs ==
    {[data |-> <<r>>, xs |-> <<x>>] : r \in MetricCases, x \in Responses}
        \cup UNION {[data : [1..k -> PairCases], xs : [1..k -> PairResponses]] :
                       k \in 0..MaxBatch}

InitMetrics ==
    \E input \in MetricInputs, flag \in BOOLEAN :
        /\ test_case_results = input.data
        /\ responses = input.xs
        /\ detailed = flag
        /\ returned = <<>>
        /\ config = <<>>
        /\ metric_shape = "by_flag"
        /\ metric_cache = NoCache
        /\ cache_run = [m \in {} |-> 0]
        /\ rag = "loaded"
        /\ run = 0
        /\ pc = "idle"
        /\ test_cases = <<>>
        /\ gi = 1 /\ qi = 1 /\ mi = 1
        /\ metric_results = <<>>
        /\ question_results = <<>>
        /\ goal_results = <<>>
        /\ result = <<>>
        /\ score_read = <<>>
        /\ events = <<>>
        /\ NothingSaved
        /\ served = <<>>
        /\ test_case_generation = {}
        /\ gemini_client_instance = None
        /\ constructed = 0
        /\ calls = <<>>

\* metric function(EvaluationData(test_case_results)) is called.
RunMetric(metric_id) ==
    /\ pc = "idle"
    /\ pc' = "called"
    /\ returned' = <<[metric_id |-> metric_id,
                      out |-> CallMetric(metric_id, test_case_results,
                                         responses, detailed)]>>
    /\ UNCHANGED <<config, detailed, metric_shape, metric_cache, cache_run,
                   rag, run, test_cases, test_case_results, gi, qi, mi,
                   metric_results, question_results, goal_results, result,
                   score_read, events>>
    /\ UNCHANGED <<save_vars, served, test_case_generation, responses,
                   client_vars>>

NextMetrics == \E metric_id \in MetricId : RunMetric(metric_id)

SpecMetrics == InitMetrics /\ [][NextMetrics]_vars

----------------------------------------------------------------------------
(* clients/gemini_client.py: the process-wide Gemini client.               *)

\* How GeminiClient.__init__ ends: it completes, or _init_gemini raises
\* ImportError (no google-generativeai) or RuntimeError (anything else).
ConstructionOutcomes == {"ok", "ImportError", "RuntimeError"}

\* What a client call gives: the exception it raised or the object it
\* returned (objects are named by the order of their construction), the
\* module global after the call and the objects constructed so far.
ClientOut(exc, msg, ret, instance, n) == [raised |-> exc # "", exc |-> exc, msg |-> msg, ret |-> ret, instance |-> instance, constructed |-> n]

\* create_gemini_client without its guard.
CreateUnguarded(instance, n, outcome) ==
    IF outcome # "ok"
    THEN ClientOut(outcome, "Failed to initialize Gemini API", None,
                   instance, n)
    ELSE ClientOut("", "", Some(<<n + 1>>), Some(<<n + 1>>), n + 1)

\* create_gemini_client(): raises when the global is set; otherwise
\* GeminiClient() is evaluated first and the global assigned only when the
\* constructor returns.
create_gemini_client(instance, n, outcome) ==
    IF instance.present
    THEN ClientOut("RuntimeError", "Gemini client instance already exists",
                   None, instance, n)
    ELSE IF outcome # "ok"
    THEN ClientOut(outcome, "Failed to initialize Gemini API", None,
                   instance, n)
    ELSE ClientOut("", "", Some(<<n + 1>>), Some(<<n + 1>>), n + 1)

\* get_gemini_client(): creates when the global is None, then returns the
\* global; an exception of the creation propagates.
get_gemini_client(instance, n, outcome) ==
    IF ~instance.present
    THEN LET made == create_gemini_client(instance, n, outcome)
         IN  IF made.raised THEN made
             ELSE ClientOut("", "", made.instance, made.instance,
                            made.constructed)
    ELSE ClientOut("", "", instance, instance, n)

\* EvaluationPipeline.__init__: create_gemini_client() first; then
\* QuestionGenerator() picks the client up with get_gemini_client().  What
\* is returned is the client the pipeline's parts hold.
EvaluationPipelineInit(instance, n, outcome) ==
    LET made == create_gemini_client(instance, n, outcome)
    IN  IF made.raised THEN made
        ELSE get_gemini_client(made.instance, made.constructed, outcome)

ClientOps == {"create_gemini_client", "get_gemini_client",
              "EvaluationPipeline"}

ClientCall(op, instance, n, outcome) ==
    CASE op = "create_gemini_client" ->
             create_gemini_client(instance, n, outcome)
      [] op = "get_gemini_client" ->
             get_gemini_client(instance, n, outcome)
      [] op = "EvaluationPipeline" ->
             EvaluationPipelineInit(instance, n, outcome)

\* One call is made, one after the other in the one process; constructing
\* is what the call would meet if it came to construct a client.
Call(op, constructing) ==
    /\ Len(calls) < MaxCalls
    /\ LET out == ClientCall(op, gemini_client_instance, constructed,
                             constructing)
       IN  /\ gemini_client_instance' = out.instance
           /\ constructed' = out.constructed
           /\ calls' = Append(calls, [op |-> op,
                                      constructing |-> constructing,
                                      before |-> gemini_client_instance,
                                      out |-> out])
    /\ UNCHANGED <<config, detailed, metric_shape, metric_cache, cache_run,
                   rag, run, pc, test_cases, test_case_results, gi, qi, mi,
                   metric_results, question_results, goal_results, result,
                   score_read, events>>
    /\ UNCHANGED <<save_vars, served, test_case_generation, responses,
                   returned>>

CreateGeminiClient ==
    \E constructing \in ConstructionOutcomes :
        Call("create_gemini_client", constructing)

GetGeminiClient ==
    \E constructing \in ConstructionOutcomes :
        Call("get_gemini_client", constructing)

NewEvaluationPipeline ==
    \E constructing \in ConstructionOutcomes :
        Call("EvaluationPipeline", constructing)

\* A fresh process: the module was imported and nothing else happened.
InitClient ==
    /\ NewFramework(<<>>, FALSE, "by_flag")
    /\ NothingSaved
    /\ NothingElse
    /\ test_case_generation = {}

NextClient ==
    \/ CreateGeminiClient
    \/ GetGeminiClient
    \/ NewEvaluationPipeline

SpecClient == InitClient /\ [][NextClient]_vars

----------------------------------------------------------------------------
(* What the claims speak about.                                            *)

\* A run that walked the whole configuration.
Completed == Len(result) = 1

\* The identifiers the configuration references, and how often.
RefPositions ==
    {<<g, q, k>> \in (1..MaxGoals) \X (1..MaxQuestions) \X (1..MaxMetrics) :
        /\ g \in DOMAIN config
        /\ q \in DOMAIN config[g].questions
        /\ k \in DOMAIN config[g].questions[q].metrics}

RefId(p) == config[p[1]].questions[p[2]].metrics[p[3]].id
RefWeight(p) == config[p[1]].questions[p[2]].metrics[p[3]].weight

References(id) == Cardinality({p \in RefPositions : RefId(p) = id})

EventsOf(kind, id) ==
    {i \in DOMAIN events : events[i].kind = kind /\ events[i].id = id}

Executions(id) == Cardinality(EventsOf("execute", id))
Hits(id) == Cardinality(EventsOf("cached", id))

\* The reference of question <<g, q>> to id returned no data.
NoDataAt(g, q, id) ==
    \E i \in EventsOf("execute", id) :
        events[i].g = g /\ events[i].q = q /\ events[i].out = "None"

\* The questions whose QuestionResult has been built in this run, and it.
DoneQuestions ==
    {<<g, q>> \in (1..MaxGoals) \X (1..MaxQuestions) :
        \/ g <= Len(goal_results) /\ q \in DOMAIN goal_results[g].questions
        \/ g = Len(goal_results) + 1 /\ q \in DOMAIN question_results}

QR(g, q) ==
    IF g <= Len(goal_results) THEN goal_results[g].questions[q]
    ELSE question_results[q]

\* The metric list of question <<g, q>> as far as it is built.
Built(g, q) ==
    IF <<g, q>> \in DoneQuestions THEN QR(g, q).metrics
    ELSE IF InQuestion /\ g = gi /\ q = qi THEN metric_results
    ELSE <<>>

\* A sum written over an index set, independent of Sum's left fold.
RECURSIVE TotalOf(_)
TotalOf(f) ==
    IF DOMAIN f = {} THEN Zero
    ELSE LET x == CHOOSE y \in DOMAIN f : TRUE
         IN  RAdd(f[x], TotalOf([y \in DOMAIN f \ {x} |-> f[y]]))

Last(s) == s[Len(s)]

----------------------------------------------------------------------------
\* C1: within one evaluate() run every referenced metric identifier is
\* executed exactly once, whatever it returns, and its other K-1 references
\* are cache hits.
C1_ExecutedOncePerRun ==
    Completed =>
        \A p \in RefPositions :
            /\ Executions(RefId(p)) = 1
            /\ Hits(RefId(p)) = References(RefId(p)) - 1

\* C2: the cache is scoped to the run: a run starts with an empty cache and
\* a cache hit never returns an entry stored by an earlier run.
C2_CacheScopedToRun ==
    /\ (pc = "query" => \A id \in DOMAIN metric_cache : cache_run[id] = run)
    /\ \A i \in DOMAIN events :
           events[i].kind = "cached" => events[i].out = run

\* C3: a computation that returned no data leaves no cache entry for its
\* metric_id (no 0.0 entry either), and the metric is absent from the metric
\* list of the question whose reference returned it.
C3_NoDataNotCached ==
    /\ (events # <<>> /\ Last(events).kind = "execute"
                      /\ Last(events).out = "None")
           => Last(events).id \notin DOMAIN metric_cache
    /\ \A p \in RefPositions :
           NoDataAt(p[1], p[2], RefId(p)) =>
               \A k \in DOMAIN Built(p[1], p[2]) :
                   Built(p[1], p[2])[k].metric_id # RefId(p)

\* Two questions referenced the metric, both got no data, the run finished.
C3_Witness ==
    /\ Completed
    /\ Cardinality({p \in RefPositions :
                       NoDataAt(p[1], p[2], RefId(p))}) >= 2
    /\ "multi_hop_reasoning" \notin DOMAIN metric_cache

\* C4: the score of a question with a no-data metric is the weighted average
\* over its other configured metrics, weights taken from the configuration
\* (defined when they do not sum to 0), and 0.0 when no metric remains.
KeptRefs(g, q) ==
    {p \in RefPositions :
        p[1] = g /\ p[2] = q /\ ~NoDataAt(g, q, RefId(p))}

ValueIn(metrics, id) ==
    LET k == CHOOSE i \in DOMAIN metrics : metrics[i].metric_id = id
    IN  metrics[k].value

C4_AverageOverOthers ==
    \A d \in DoneQuestions :
        LET g == d[1]
            q == d[2]
            kept == KeptRefs(g, q)
            metrics == QR(g, q).metrics
            weight == TotalOf([p \in kept |-> RefWeight(p)])
        IN  (\E p \in RefPositions : NoDataAt(g, q, RefId(p))) =>
              /\ {metrics[k].metric_id : k \in DOMAIN metrics}
                     = {RefId(p) : p \in kept}
              /\ Len(metrics) = Cardinality(kept)
              /\ kept = {} => QuestionScore(QR(g, q)) = Float(Zero)
              /\ RPos(weight) =>
                    /\ ~QuestionScore(QR(g, q)).raised
                    /\ RMul(QuestionScore(QR(g, q)).val, weight)
                         = TotalOf([p \in kept |->
                               RMul(ValueIn(metrics, RefId(p)),
                                    RefWeight(p))])

\* A question with a no-data metric of positive weight and a scored one.
C4_Witness ==
    \E d \in DoneQuestions :
        /\ \E p \in RefPositions :
               /\ p[1] = d[1] /\ p[2] = d[2]
               /\ NoDataAt(d[1], d[2], RefId(p))
               /\ RPos(RefWeight(p))
        /\ KeptRefs(d[1], d[2]) # {}
        /\ ~QuestionScore(QR(d[1], d[2])).raised
        /\ RPos(QuestionScore(QR(d[1], d[2])).val)

\* C5: every score is well defined: children whose weights sum to zero give
\* 0.0 at each of the three levels, and no score raises ZeroDivisionError.
C5_ScoresWellDefined ==
    /\ \A d \in DoneQuestions :
           LET q == QR(d[1], d[2])
           IN  /\ ~QuestionScore(q).raised
               /\ Sum([k \in DOMAIN q.metrics |-> q.metrics[k].weight]) = Zero
                      => QuestionScore(q) = Float(Zero)
    /\ \A g \in DOMAIN goal_results :
           /\ ~GoalScore(goal_results[g]).raised
           /\ Sum([k \in DOMAIN goal_results[g].questions |->
                      goal_results[g].questions[k].weight]) = Zero
                  => GoalScore(goal_results[g]) = Float(Zero)
    /\ Completed =>
           /\ ~EvaluationScore(result[1]).raised
           /\ Sum([k \in DOMAIN result[1].goals |->
                      result[1].goals[k].weight]) = Zero
                  => EvaluationScore(result[1]) = Float(Zero)

\* C6: at each level the score is sum(s_i*w_i)/sum(w_i) over the children
\* when there are children of positive total weight, and 0.0 when there are
\* none; the tree of the example scores 2/3 at all three levels.
WeightedAverage(children, score) ==
    /\ DOMAIN children = {} => score = Float(Zero)
    /\ (DOMAIN children # {}
          /\ RPos(TotalOf([k \in DOMAIN children |-> children[k].w])))
         => /\ ~score.raised
            /\ RMul(score.val, TotalOf([k \in DOMAIN children |-> children[k].w]))
                 = TotalOf([k \in DOMAIN children |->
                               RMul(children[k].s, children[k].w)])

ExampleTree ==
    EvaluationResult(<<GoalResult(1, <<QuestionResult(<<1, 1>>,
        <<MetricResult("faithfulness", Rat(4, 5), One, None),
          MetricResult("multi_hop_reasoning", Rat(2, 5), Half, None)>>,
        One)>>, One)>>)

C6_WeightedAverages ==
    Completed =>
      LET goals == result[1].goals
      IN  /\ \A g \in DOMAIN goals : \A q \in DOMAIN goals[g].questions :
                LET ms == goals[g].questions[q].metrics
                IN  WeightedAverage(
                        [k \in DOMAIN ms |-> [s |-> ms[k].value, w |-> ms[k].weight]],
                        QuestionScore(goals[g].questions[q]))
          /\ \A g \in DOMAIN goals :
                LET qs == goals[g].questions
                IN  (\A q \in DOMAIN qs : ~QuestionScore(qs[q]).raised) =>
                      WeightedAverage(
                          [k \in DOMAIN qs |->
                              [s |-> QuestionScore(qs[k]).val, w |-> qs[k].weight]],
                          GoalScore(goals[g]))
          /\ (\A g \in DOMAIN goals : ~GoalScore(goals[g]).raised) =>
                WeightedAverage(
                    [k \in DOMAIN goals |->
                        [s |-> GoalScore(goals[k]).val, w |-> goals[k].weight]],
                    EvaluationScore(result[1]))
          /\ result[1] = ExampleTree =>
                /\ QuestionScore(goals[1].questions[1]) = Float(Rat(2, 3))
                /\ GoalScore(goals[1]) = Float(Rat(2, 3))
                /\ EvaluationScore(result[1]) = Float(Rat(2, 3))

\* The example tree, its overall score read as 2/3.
C6_Witness ==
    /\ result = <<ExampleTree>>
    /\ score_read = <<Float(Rat(2, 3))>>
    /\ EvaluationScore(result[1]) = Float(Rat(2, 3))

\* The tree mirrors the configuration: one GoalResult per goal and one
\* QuestionResult per question.
TreeMatchesConfig ==
    /\ Len(result[1].goals) = Len(config)
    /\ \A g \in DOMAIN config :
           /\ result[1].goals[g].goal_name = config[g].name
           /\ Len(result[1].goals[g].questions) = Len(config[g].questions)
           /\ \A q \in DOMAIN config[g].questions :
                  result[1].goals[g].questions[q].question_text
                      = config[g].questions[q].text

\* C7: evaluate never raises and returns a tree with one GoalResult per goal
\* and one QuestionResult per question, each with a computable score.
C7_AlwaysReturnsTree ==
    /\ pc # "raised"
    /\ pc = "done" =>
           /\ TreeMatchesConfig
           /\ ~EvaluationScore(result[1]).raised

AllBuilt ==
    UNION {{[g |-> d[1], q |-> d[2], m |-> QR(d[1], d[2]).metrics[k]] :
               k \in DOMAIN QR(d[1], d[2]).metrics} : d \in DoneQuestions}
    \cup (IF InQuestion
          THEN {[g |-> gi, q |-> qi, m |-> metric_results[k]] :
                   k \in DOMAIN metric_results}
          ELSE {})

ConfiguredWeight(g, q, id) ==
    LET ms == config[g].questions[q].metrics
        k == CHOOSE i \in DOMAIN ms : ms[i].id = id
    IN  ms[k].weight

\* C9: in the tree of one run, MetricResults with the same metric_id carry
\* the same value and individual_scores, each with the weight its own
\* question configures for that metric.
C9_SharedValueOwnWeight ==
    LET built == AllBuilt
    IN  /\ \A a, b \in built :
               a.m.metric_id = b.m.metric_id =>
                   /\ a.m.value = b.m.value
                   /\ a.m.individual_scores = b.m.individual_scores
        /\ \A a \in built :
               a.m.weight = ConfiguredWeight(a.g, a.q, a.m.metric_id)

\* A finished run in which two questions reference one metric with
\* different weights and the second got its nonzero value from the cache.
C9_Witness ==
    /\ Completed
    /\ \E a, b \in AllBuilt :
           /\ <<a.g, a.q>> # <<b.g, b.q>>
           /\ a.m.metric_id = b.m.metric_id
           /\ a.m.weight # b.m.weight
           /\ RPos(a.m.value)
           /\ \E i \in EventsOf("cached", b.m.metric_id) :
                  events[i].g = b.g /\ events[i].q = b.q

\* The identifiers a question configures, in declared order, without those
\* whose reference returned no data.
RECURSIVE Scored_ids(_, _, _)
Scored_ids(g, q, n) ==
    IF n = 0 THEN <<>>
    ELSE LET id == config[g].questions[q].metrics[n].id
         IN  IF NoDataAt(g, q, id) THEN Scored_ids(g, q, n - 1)
             ELSE Append(Scored_ids(g, q, n - 1), id)

\* C10: the result tree and to_dict list goals, questions and (scored)
\* metrics in the order the configuration declares them, cache hit or not.
C10_DeclaredOrder ==
    Completed =>
        /\ TreeMatchesConfig
        /\ \A g \in DOMAIN config : \A q \in DOMAIN config[g].questions :
               [k \in DOMAIN result[1].goals[g].questions[q].metrics |->
                    result[1].goals[g].questions[q].metrics[k].metric_id]
                 = Scored_ids(g, q, Len(config[g].questions[q].metrics))
        /\ pc = "done" =>
               LET doc == ToDict(result[1])
               IN  /\ [g \in DOMAIN doc.goals |-> doc.goals[g].name]
                         = [g \in DOMAIN config |-> config[g].name]
                   /\ \A g \in DOMAIN config :
                          /\ [q \in DOMAIN doc.goals[g].questions |->
                                  doc.goals[g].questions[q].text]
                               = [q \in DOMAIN config[g].questions |->
                                      config[g].questions[q].text]
                          /\ \A q \in DOMAIN config[g].questions :
                                 [k \in DOMAIN doc.goals[g].questions[q].metrics |->
                                      doc.goals[g].questions[q].metrics[k].id]
                                   = Scored_ids(g, q,
                                         Len(config[g].questions[q].metrics))

\* A returned tree with a question of two metrics, the first one served
\* from the cache and the second one executed.
C10_Witness ==
    /\ pc = "done"
    /\ \E d \in DoneQuestions :
           /\ Len(QR(d[1], d[2]).metrics) = 2
           /\ \E i \in EventsOf("cached", QR(d[1], d[2]).metrics[1].metric_id) :
                  events[i].g = d[1] /\ events[i].q = d[2]
           /\ \E i \in EventsOf("execute", QR(d[1], d[2]).metrics[2].metric_id) :
                  events[i].g = d[1] /\ events[i].q = d[2]

\* C11: a question configured with zero metrics is in the tree (and in
\* to_dict) with an empty metrics list and score 0.0, and its goal's score is
\* the weighted average over all its questions, this one included with its
\* configured weight.
C11_EmptyQuestionCounts ==
    /\ \A d \in DoneQuestions :
           config[d[1]].questions[d[2]].metrics = <<>> =>
               /\ QR(d[1], d[2]).metrics = <<>>
               /\ QR(d[1], d[2]).weight = config[d[1]].questions[d[2]].weight
               /\ QuestionScore(QR(d[1], d[2])) = Float(Zero)
    /\ \A g \in DOMAIN goal_results :
           LET qs == goal_results[g].questions
               cs == config[g].questions
           IN  /\ Len(qs) = Len(cs)
               /\ ((\E q \in DOMAIN cs : cs[q].metrics = <<>>)
                     /\ (\A q \in DOMAIN qs : ~QuestionScore(qs[q]).raised))
                    => /\ ~GoalScore(goal_results[g]).raised
                       /\ RMul(GoalScore(goal_results[g]).val,
                               TotalOf([q \in DOMAIN cs |-> cs[q].weight]))
                            = TotalOf([q \in DOMAIN qs |->
                                  RMul(QuestionScore(qs[q]).val, cs[q].weight)])
    /\ pc = "done" =>
           \A g \in DOMAIN config : \A q \in DOMAIN config[g].questions :
               config[g].questions[q].metrics = <<>> =>
                   LET entry == ToDict(result[1]).goals[g].questions[q]
                   IN  /\ entry.text = config[g].questions[q].text
                       /\ entry.score = Zero
                       /\ entry.metrics = <<>>

\* A returned tree whose goal holds a question without metrics, of weight
\* 0.5, and a question that scored: the goal scores less than that question.
C11_Witness ==
    /\ pc = "done"
    /\ \E g \in DOMAIN config : \E q, r \in DOMAIN config[g].questions :
           /\ config[g].questions[q].metrics = <<>>
           /\ config[g].questions[q].weight = Half
           /\ RPos(QuestionScore(result[1].goals[g].questions[r]).val)
           /\ GoalScore(result[1].goals[g]).val
                  # QuestionScore(result[1].goals[g].questions[r]).val
           /\ RPos(GoalScore(result[1].goals[g]).val)

\* The query events of this run, in order.
QueryEvents == SelectSeq(events, LAMBDA e : e.kind = "query")

\* The record _test_rag_system stores for test case t when its query failed.
FailedRecord(t) ==
    TestCaseResult(t.question, "", 0, t.ground_truth, t.entities,
                   t.question_type)

\* C12: a failed query leaves a record with empty answer and no documents,
\* the other fields copied from the test case; every later test case is still
\* processed, so the batch has one record per test case whatever fails.
C12_FailedQueryRecorded ==
    /\ Len(test_case_results) <= Len(test_cases)
    /\ Len(QueryEvents) = Len(test_case_results)
    /\ \A i \in DOMAIN test_case_results :
           /\ test_case_results[i].query = test_cases[i].question
           /\ test_case_results[i].ground_truth = test_cases[i].ground_truth
           /\ test_case_results[i].entities = test_cases[i].entities
           /\ test_case_results[i].question_type = test_cases[i].question_type
           /\ QueryEvents[i].out = "failed" =>
                  test_case_results[i] = FailedRecord(test_cases[i])
    /\ pc # "query" => Len(test_case_results) = Len(test_cases)

\* The first query failed and the second test case was answered.
C12_Witness ==
    /\ pc = "done"
    /\ Len(test_case_results) = 2
    /\ QueryEvents[1].out = "failed"
    /\ test_case_results[1] = FailedRecord(test_cases[1])
    /\ test_case_results[2].generated_answer # ""

\* C13: the query capability is invoked once per test case, in input order,
\* without retry or skip, and the i-th record belongs to the i-th test case.
C13_OneQueryPerCaseInOrder ==
    /\ Len(QueryEvents) <= Len(test_cases)
    /\ \A i \in DOMAIN QueryEvents : QueryEvents[i].g = test_cases[i].question
    /\ Len(test_case_results) = Len(QueryEvents)
    /\ \A i \in DOMAIN test_case_results :
           test_case_results[i].query = test_cases[i].question
    /\ pc # "query" => Len(QueryEvents) = Len(test_cases)

\* Two test cases were queried, the first one failed, the run went on.
C13_Witness ==
    /\ pc = "metrics"
    /\ Len(QueryEvents) = 2
    /\ QueryEvents[1].out = "failed"
    /\ QueryEvents[2].g = test_cases[2].question

\* The phase of the run an event belongs to.
Phase(e) ==
    IF e.kind = "query" THEN 1 ELSE IF e.kind = "unload" THEN 2 ELSE 3

\* C14: in a run all queries come first, then the one release step, then
\* the metric computations: the release step follows the last test case's
\* query, no metric precedes it and no query follows it.
C14_QueryReleaseMetrics ==
    /\ \A i, j \in DOMAIN events : i < j => Phase(events[i]) <= Phase(events[j])
    /\ \A i \in DOMAIN events :
           /\ events[i].kind = "unload" => i = Len(test_cases) + 1
           /\ Phase(events[i]) = 3 => events[Len(test_cases) + 1].kind = "unload"
    /\ pc \in {"metrics", "done"} =>
           /\ Len(events) > Len(test_cases)
           /\ events[Len(test_cases) + 1].kind = "unload"

\* A returned run with two queries, the release and an executed metric.
C14_Witness ==
    /\ pc = "done"
    /\ Len(QueryEvents) = 2
    /\ events[3] = Event("unload", "", 0, 0, "ok")
    /\ rag = "unloaded"
    /\ Len(events) > 3
    /\ events[4].kind = "execute"

\* The release of the RAG system failed in this run.
UnloadFailed ==
    \E i \in DOMAIN events :
        events[i].kind = "unload" /\ events[i].out = "failed"

\* The record _test_rag_system stored for the i-th test case.
RecordOf(i) ==
    IF QueryEvents[i].out = "failed" THEN FailedRecord(test_cases[i])
    ELSE TestCaseResult(test_cases[i].question, "answer", 2,
                        test_cases[i].ground_truth, test_cases[i].entities,
                        test_cases[i].question_type)

\* Every configured reference was evaluated: executed or served from cache.
AllEvaluated ==
    \A p \in RefPositions :
        \E i \in DOMAIN events :
            /\ events[i].kind \in {"execute", "cached"}
            /\ events[i].id = RefId(p)
            /\ events[i].g = p[1] /\ events[i].q = p[2]

\* C15: a failed release is not propagated: the run goes on to the metrics,
\* the batch built before it is unchanged, and evaluate() returns the tree
\* with every configured metric evaluated.
C15_ReleaseFailureRecovered ==
    UnloadFailed =>
        /\ pc \in {"metrics", "done", "raised"}
        /\ pc = "raised" => Completed
        /\ test_case_results = [i \in DOMAIN test_cases |-> RecordOf(i)]
        /\ Completed => TreeMatchesConfig /\ AllEvaluated

\* The release failed and evaluate() returned a tree with a scored metric.
C15_Witness ==
    /\ UnloadFailed
    /\ pc = "done"
    /\ test_case_results # <<>>
    /\ \E i \in DOMAIN events :
           events[i].kind = "execute" /\ RPos(events[i].ret.score)

\* C16: an identifier outside the fifteen never raises: execute_metric
\* returns 0.0 for it without calling a metric function, and every question
\* referencing it holds a MetricResult of value 0.0 with the question's own
\* configured weight, without breakdown.
C16_UnknownIdIsZero ==
    /\ \A i \in EventsOf("execute", "no_such_metric") :
           events[i].ret = Bare(Zero, "unknown")
    /\ (events # <<>> /\ Last(events).id = "no_such_metric" /\ ~Completed)
           => pc # "raised"
    /\ \A a \in AllBuilt :
           a.m.metric_id \notin MetricId =>
               a.m = MetricResult(a.m.metric_id, Zero,
                                  ConfiguredWeight(a.g, a.q, a.m.metric_id),
                                  None)
    /\ \A d \in DoneQuestions :
           \A k \in DOMAIN config[d[1]].questions[d[2]].metrics :
               LET id == config[d[1]].questions[d[2]].metrics[k].id
               IN  id \notin MetricId =>
                       \E j \in DOMAIN QR(d[1], d[2]).metrics :
                           QR(d[1], d[2]).metrics[j].metric_id = id

\* Two questions reference the unknown identifier with different weights;
\* the first reference was executed, the second served from the cache.
C16_Witness ==
    /\ pc = "done"
    /\ \E a, b \in AllBuilt :
           /\ a.m.metric_id = "no_such_metric"
           /\ b.m.metric_id = "no_such_metric"
           /\ a.q # b.q
           /\ a.m.weight # b.m.weight
           /\ a.m.value = Zero /\ b.m.value = Zero
    /\ EventsOf("execute", "no_such_metric") # {}
    /\ EventsOf("cached", "no_such_metric") # {}

\* The executions of this run in which the metric function raised.
FailedExecutions ==
    {i \in DOMAIN events :
        events[i].kind = "execute" /\ events[i].out = "exception"}

\* C17: a metric function that raises is recovered: its metric is 0.0, without
\* breakdown, in every referencing question; the cache entry is that complete
\* pair; the run goes on and evaluates every remaining reference.
C17_MetricFailureRecovered ==
    /\ \A i \in FailedExecutions :
           LET id == events[i].id
           IN  /\ id \in DOMAIN metric_cache
               /\ metric_cache[id] = CachedMetricResult(id, Zero, None)
               /\ \E k \in DOMAIN Built(events[i].g, events[i].q) :
                      Built(events[i].g, events[i].q)[k].metric_id = id
               /\ \A a \in AllBuilt :
                      a.m.metric_id = id =>
                          a.m.value = Zero /\ a.m.individual_scores = None
    /\ (FailedExecutions # {} /\ ~Completed) => pc # "raised"
    /\ (FailedExecutions # {} /\ Completed) =>
           TreeMatchesConfig /\ AllEvaluated

\* The metric function raised at its first reference; a second question got
\* the 0.0 from the cache and another metric was then executed and scored.
C17_Witness ==
    /\ pc = "done"
    /\ \E i \in FailedExecutions :
           /\ \E j \in EventsOf("cached", events[i].id) : j > i
           /\ \E j \in DOMAIN events :
                  /\ j > i
                  /\ events[j].kind = "execute"
                  /\ RPos(events[j].ret.score)

\* The breakdown the metric function returned for id in this run, if any.
BreakdownOf(id) ==
    {events[i].ret.individual_scores.items :
        i \in {j \in EventsOf("execute", id) : events[j].ret.kind = "dict"}}

\* The metric entries of the serialized tree.
MetricEntries ==
    LET doc == ToDict(result[1])
    IN  UNION {UNION {{doc.goals[g].questions[q].metrics[k] :
                          k \in DOMAIN doc.goals[g].questions[q].metrics} :
                      q \in DOMAIN doc.goals[g].questions} :
               g \in DOMAIN doc.goals}

\* C18: in to_dict every metric entry has id, value and weight, and has the
\* key individual_scores exactly when the metric produced a breakdown, then
\* with that breakdown as its value; otherwise the key is absent, not null.
C18_BreakdownKeyIffProduced ==
    pc = "done" =>
        \A entry \in MetricEntries :
            /\ {"id", "value", "weight"} \subseteq DOMAIN entry
            /\ DOMAIN entry \subseteq
                   {"id", "value", "weight", "individual_scores"}
            /\ "individual_scores" \in DOMAIN entry
                   <=> BreakdownOf(entry.id) # {}
            /\ "individual_scores" \in DOMAIN entry
                   => entry.individual_scores \in BreakdownOf(entry.id)

\* One document with an entry that carries a breakdown and one that has none.
C18_Witness ==
    /\ pc = "done"
    /\ \E a, b \in MetricEntries :
           /\ "individual_scores" \in DOMAIN a
           /\ a.individual_scores # <<>>
           /\ "individual_scores" \notin DOMAIN b

\* The stored scores of a document equal the scores of the tree t.
StoredScoresOf(doc, t) ==
    /\ doc.overall_score = EvaluationScore(t).val
    /\ \A g \in DOMAIN doc.goals :
           /\ doc.goals[g].score = GoalScore(t.goals[g]).val
           /\ \A q \in DOMAIN doc.goals[g].questions :
                  doc.goals[g].questions[q].score
                      = QuestionScore(t.goals[g].questions[q]).val

\* Every complete file parses back to the saved tree, scores included.
ParsesBack ==
    \A path \in DOMAIN output_dir :
        output_dir[path].state = "complete" =>
            LET doc == output_dir[path].doc[1]
            IN  /\ Parse(doc) = result[1]
                /\ StoredScoresOf(doc, Parse(doc))

\* C19: serializing a result (to_dict / save) and parsing the document back
\* reproduces the goals, questions and metrics in order with their names,
\* weights, values and scores, each stored score being the weighted average
\* of the stored children: every save writes such a document.
C19_RoundTrip ==
    /\ \A w \in Writers : saving[w].pc # "raised"
    /\ ParsesBack

\* C20: no two save_results calls use the same file path, also when they
\* happen within the same clock second.
C20_SavePathsDistinct ==
    \A i, j \in DOMAIN saves : i # j => saves[i].path # saves[j].path

\* C21: the result document is written atomically: a request of the
\* dashboard (list or detail) that runs while save_results writes finds no
\* file or the complete document, never an empty or cut-off one, also when
\* serialization fails midway.
C21_ReaderSeesWholeOrNothing ==
    \A i \in DOMAIN served : served[i].content \in {"none", "complete"}

\* The configuration names no question type QuestionType() accepts.
NoValidType == test_case_generation \cap QuestionTypeValues = {}

\* C22: with a test_case_generation that names no valid question type,
\* evaluate() raises when it generates its test cases, and nothing was
\* queried, released or computed before: the step out of generate_test_cases
\* is the raise.
C22_NoValidTypeIsFatal ==
    [][(pc = "generate" /\ NoValidType) =>
          /\ pc' = "raised"
          /\ events' = <<>> /\ test_case_results' = <<>>
          /\ rag' = "loaded" /\ metric_cache' = NoCache /\ run' = 0]_vars

\* evaluate() raised out of generate_test_cases with nothing done.
C22_Witness ==
    /\ NoValidType
    /\ test_case_generation # {}
    /\ pc = "raised" /\ run = 0 /\ events = <<>>

\* C22 as stated: such a configuration makes every evaluate() call raise
\* before any work.
C22_NoValidTypeAlwaysFatal ==
    NoValidType =>
        /\ pc \in {"idle", "generate", "raised"}
        /\ events = <<>> /\ rag = "loaded"

\* The call a metric function answered, and what it was given.
Called == returned # <<>>
CalledId == returned[1].metric_id
Out == returned[1].out

\* The entries of the breakdown returned (none without a breakdown).
Entries ==
    IF ~Out.raised /\ has_details(Out.val)
    THEN Out.val.individual_scores.items
    ELSE <<>>

\* A record with an empty answer and no retrieved document.
EmptyRecord(r) == r.generated_answer = "" /\ r.retrieved_documents = 0

EmptyRecords == {i \in DOMAIN test_case_results :
                    EmptyRecord(test_case_results[i])}

\* A value of [0, 1].
InUnit(v) == 0 <= v[1] /\ v[1] <= v[2]

\* C23: a test case result with an empty answer and no retrieved document
\* never makes one of the fifteen metric functions raise: it is skipped or
\* counted with 0.0 and gets no entry in the breakdown, and the function
\* still returns a score or no data.
C23_EmptyRecordHarmless ==
    Called =>
        /\ EmptyRecords = DOMAIN test_case_results =>
               /\ ~Out.raised
               /\ Out.val.score = Zero
               /\ Entries = <<>>
        /\ Len(Entries) <= Len(test_case_results) - Cardinality(EmptyRecords)
        /\ Out.raised =>
               \E i \in DOMAIN test_case_results \ EmptyRecords :
                   LoopBody(CalledId, test_case_results[i], responses[i])
                       = Stale

\* A function was called on a failed query's record followed by an answered
\* test case and returned the answered one's score.
C23_Witness ==
    /\ Called /\ ~Out.raised
    /\ Len(test_case_results) = 2
    /\ EmptyRecords = {1}
    /\ Out.val.kind = "dict" /\ Len(Entries) = 1
    /\ RPos(Out.val.score)

\* A response no parser of a metric function finds anything in, or a call
\* that raised.
Malformed(x) ==
    x.raised \/ (x.rating = <<>> /\ x.lines = 0 /\ x.array = <<>>)

\* What test case i adds to the sum and to the count of the loop.
Contribution(metric_id, data, xs, i) ==
    LET before == Loop(metric_id, data, xs, i - 1)
        after == Loop(metric_id, data, xs, i)
    IN  [raised |-> after.raised,
         count |-> after.count - before.count,
         score |-> RAdd(after.total, RMul(<<-1, 1>>, before.total))]

\* C24: a malformed LLM response is handled inside the metric function: the
\* function does not raise, the affected test case gets its own default
\* score (what it adds does not depend on what the other test cases'
\* responses were), and the other test cases still count.
C24_MalformedResponseHandled ==
    Called =>
        /\ ~Out.raised
        /\ \A i \in DOMAIN responses :
               Malformed(responses[i]) =>
                   \A j \in DOMAIN responses \ {i}, x \in PairResponses :
                       Contribution(CalledId, test_case_results,
                                    [responses EXCEPT ![j] = x], i)
                           = Contribution(CalledId, test_case_results,
                                          responses, i)

\* C26: every score a metric function gives, the overall score and each
\* entry of the breakdown, is in [0, 1], whatever the LLM answered.
C26_ScoresInUnitInterval ==
    (Called /\ ~Out.raised /\ Out.val # NoData) =>
        /\ InUnit(Out.val.score)
        /\ \A k \in DOMAIN Entries : InUnit(Entries[k].score)

\* The test cases the claim counts as multi-hop: of type COMPLEX, as the
\* Enum member or as the string "complex" that generated and cached test
\* cases carry, with an answer and at least two documents.
ComplexAnswered ==
    {i \in DOMAIN test_case_results :
        /\ test_case_results[i].question_type \in {COMPLEX, "complex"}
        /\ test_case_results[i].generated_answer # ""
        /\ test_case_results[i].retrieved_documents >= 2}

\* C28: multi_hop_reasoning_score returns no data exactly when the batch has
\* no COMPLEX test case with an answer and at least two documents; a test
\* case whose type is the string "complex" counts as COMPLEX.
C28_NoDataIffNoComplexCase ==
    (Called /\ CalledId = "multi_hop_reasoning") =>
        /\ ~Out.raised
        /\ Out.val = NoData <=> ComplexAnswered = {}

\* The metric references evaluated so far in this run, executed or served
\* from the cache, in the order they were evaluated.
MetricEvents == SelectSeq(events, LAMBDA e : e.kind \in {"execute", "cached"})

\* The place of a reference in the walk over goals, then questions, then the
\* question's metric map, each in declared order.
Rank(p) ==
    Cardinality({r \in RefPositions :
        \/ r[1] < p[1]
        \/ r[1] = p[1] /\ r[2] < p[2]
        \/ r[1] = p[1] /\ r[2] = p[2] /\ r[3] <= p[3]})

Walk == [n \in 1..Cardinality(RefPositions) |->
            CHOOSE p \in RefPositions : Rank(p) = n]

\* C25: metrics are computed one at a time in declared order: the n-th
\* reference evaluated is the n-th reference of the walk, so the execute_metric
\* calls are the walk with the references served from the cache removed, and
\* no metric of a goal is evaluated before those of the earlier goals.
C25_ExecutedInDeclaredOrder ==
    /\ Len(MetricEvents) <= Cardinality(RefPositions)
    /\ \A n \in DOMAIN MetricEvents :
           /\ MetricEvents[n].g = Walk[n][1]
           /\ MetricEvents[n].q = Walk[n][2]
           /\ MetricEvents[n].id = RefId(Walk[n])
    /\ \A i, j \in DOMAIN MetricEvents :
           i < j => MetricEvents[i].g <= MetricEvents[j].g
    /\ pc = "done" => Len(MetricEvents) = Cardinality(RefPositions)

\* A returned run over two goals in which references were executed and one
\* was served from the cache.
C25_Witness ==
    /\ pc = "done"
    /\ Len(config) = 2
    /\ \E i, j, k \in DOMAIN MetricEvents :
           /\ i < j /\ j < k
           /\ MetricEvents[i].kind = "execute"
           /\ MetricEvents[j].kind = "execute"
           /\ MetricEvents[i].id # MetricEvents[j].id
           /\ MetricEvents[i].q = MetricEvents[j].q
           /\ MetricEvents[i].g = MetricEvents[j].g
           /\ MetricEvents[k].kind = "cached"
           /\ MetricEvents[k].g = 2

\* Every weight the configuration gives a goal, a question or a metric is
\* positive.
PositiveWeights ==
    \A g \in DOMAIN config :
        /\ RPos(config[g].weight)
        /\ \A q \in DOMAIN config[g].questions :
               /\ RPos(config[g].questions[q].weight)
               /\ \A k \in DOMAIN config[g].questions[q].metrics :
                      RPos(config[g].questions[q].metrics[k].weight)

\* Every metric value of the tree e is in [0, 1].
ValuesInUnit(e) ==
    \A g \in DOMAIN e.goals : \A q \in DOMAIN e.goals[g].questions :
        \A k \in DOMAIN e.goals[g].questions[q].metrics :
            InUnit(e.goals[g].questions[q].metrics[k].value)

\* A score that is a number of [0, 1].
UnitScore(s) == ~s.raised /\ InUnit(s.val)

\* C27: with every metric value in [0, 1] and every configured weight
\* positive, every question, goal and overall score of the returned tree is
\* in [0, 1], whichever metrics were cached, zeroed or omitted.
C27_ScoresInUnitInterval ==
    (Completed /\ PositiveWeights /\ ValuesInUnit(result[1])) =>
        /\ UnitScore(EvaluationScore(result[1]))
        /\ \A g \in DOMAIN result[1].goals :
               /\ UnitScore(GoalScore(result[1].goals[g]))
               /\ \A q \in DOMAIN result[1].goals[g].questions :
                      UnitScore(QuestionScore(result[1].goals[g].questions[q]))

\* A returned tree under positive weights with a metric omitted, a reference
\* served from the cache and an overall score strictly between 0 and 1.
C27_Witness ==
    /\ pc = "done" /\ PositiveWeights
    /\ \E i, j \in DOMAIN events :
           /\ events[i].kind = "execute" /\ events[i].out = "None"
           /\ events[j].kind = "cached"
    /\ RPos(EvaluationScore(result[1]).val)
    /\ EvaluationScore(result[1]).val # One
    /\ UnitScore(EvaluationScore(result[1]))

\* The release step of this run went through without an exception.
ReleaseOk ==
    \E i \in DOMAIN events :
        events[i].kind = "unload" /\ events[i].out = "ok"

\* C29: once a release step has gone through, the adapter's rag_pipeline
\* and retriever are None and stay None; an evaluate() on that adapter
\* records every test case as a failure (empty answer, no documents) and
\* still builds and returns its result tree.
C29_ReleasedAdapterFailsEveryQuery ==
    /\ [](ReleaseOk => rag = "unloaded")
    /\ [][rag = "unloaded" =>
             /\ rag' = "unloaded"
             /\ Len(test_case_results') > Len(test_case_results) =>
                    EmptyRecord(test_case_results'[Len(test_case_results')])
             /\ pc' \in {"done", "raised"} => Len(result') = 1]_vars

\* A second evaluate() on a released adapter has recorded both of its test
\* cases as failures.
C29_Witness ==
    /\ run = 2 /\ pc = "query" /\ rag = "unloaded"
    /\ Len(test_cases) = 2
    /\ Len(test_case_results) = 2
    /\ \A i \in DOMAIN test_case_results : EmptyRecord(test_case_results[i])

\* C29 as stated: after any evaluate() the adapter's references are None,
\* and a later evaluate() on it records only failures.
C29_AdapterAlwaysReleased ==
    /\ (pc \in {"metrics", "done", "raised"} /\ run >= 1) => rag = "unloaded"
    /\ run = 2 =>
           \A i \in DOMAIN test_case_results :
               EmptyRecord(test_case_results[i])

\* The objects constructed before the i-th client call.
ConstructedBefore(i) == IF i = 1 THEN 0 ELSE calls[i - 1].out.constructed

AlreadyExists(c) ==
    /\ c.out.raised
    /\ c.out.exc = "RuntimeError"
    /\ c.out.msg = "Gemini client instance already exists"

\* C30: after any sequence of create_gemini_client / get_gemini_client calls
\* and EvaluationPipeline constructions at most one GeminiClient was
\* constructed, and it is the registered one.  get_gemini_client constructs
\* only when no client is registered and otherwise returns the registered
\* one; create_gemini_client, and so the construction of an
\* EvaluationPipeline, raises RuntimeError when a client is registered and
\* leaves it in place; a construction that fails propagates its exception
\* and leaves no client registered.
C30_AtMostOneGeminiClient ==
    /\ constructed <= 1
    /\ gemini_client_instance =
           IF constructed = 0 THEN None ELSE Some(<<1>>)
    /\ \A i \in DOMAIN calls :
           LET c == calls[i]
               made == c.out.constructed - ConstructedBefore(i)
           IN  /\ c.before.present =>
                      /\ made = 0
                      /\ c.out.instance = c.before
                      /\ IF c.op = "get_gemini_client"
                         THEN ~c.out.raised /\ c.out.ret = c.before
                         ELSE AlreadyExists(c)
               /\ ~c.before.present /\ c.constructing # "ok" =>
                      /\ made = 0
                      /\ c.out.raised
                      /\ c.out.exc = c.constructing
                      /\ c.out.instance = None
               /\ ~c.before.present /\ c.constructing = "ok" =>
                      /\ made = 1
                      /\ ~c.out.raised
                      /\ c.out.instance.present
                      /\ c.out.ret = c.out.instance

\* A construction failed and registered nothing; a pipeline was then
\* constructed; the construction of a second pipeline raised; and
\* get_gemini_client returned the first pipeline's client.
C30_Witness ==
    /\ Len(calls) = 4
    /\ calls[1].op = "create_gemini_client"
    /\ calls[1].out.raised /\ ~AlreadyExists(calls[1])
    /\ calls[2].op = "EvaluationPipeline" /\ ~calls[2].out.raised
    /\ calls[3].op = "EvaluationPipeline" /\ AlreadyExists(calls[3])
    /\ calls[4].op = "get_gemini_client"
    /\ calls[4].out.ret = calls[2].out.ret
    /\ constructed = 1

====
